---- MODULE Spec2Model ----
(***************************************************************************)
(* olmocr bench (src/olmocr/bench/benchmark.py): evaluate_candidate and    *)
(* the per-candidate part of main, as a state machine.                     *)
(*                                                                         *)
(* One run of the model is one candidate folder taken through              *)
(*   discovery (lines 60-87), the worker pool running process_test         *)
(*   (lines 90-159), the as_completed loop (lines 168-184), the return     *)
(*   (lines 186-187), main's per-candidate report (lines 339-398) and the  *)
(*   candidate's row of the final summary (lines 406-466).                 *)
(*                                                                         *)
(* Further specifications follow other parts of the run on their own:      *)
(*   SpecThreads (the worker threads of the pool, line by line),           *)
(*   SpecPool (main's loop over the candidates and the size of the pool),  *)
(*   SpecStartup (main from its arguments to the candidate listing),       *)
(*   SpecMain (main over all the candidates, to the export of failures),   *)
(*   SpecEvaluate (evaluate_candidate alone, to its return),               *)
(*   SpecBootstrap, SpecPermutation (the statistics of utils.py),          *)
(*   SpecOrder (the order assertion of tests.py),                          *)
(*   SpecUpdateGt (gt/update_gt.py and the directory scan of main) and     *)
(*   SpecParse (parsers/llamaparse/parse.py).                              *)
(*                                                                         *)
(* Ratios are exact: a pass ratio passes/num_repeats is held in units of   *)
(* 1/Denom (Denom a common multiple of every possible num_repeats), and    *)
(* means of ratios are held as fractions [n, d].                           *)
(***************************************************************************)
EXTENDS Integers, Sequences, FiniteSets, TLC

\* ------------------------------------------------------------------ bounds
\* At most this many _pg{page}_repeat{N}.md files per page.
MaxRepeats == 2
\* At most this many *.md files in the candidate's search folder.
MaxFiles == 3

\* ----------------------------------------------------------- the data set
\* pdf_basenames (benchmark.py:250), in the order the loops walk it.
pdf_basenames == <<"a.pdf", "b.pdf">>

Pdfs == {pdf_basenames[k] : k \in 1..Len(pdf_basenames)}

Pages == {1, 2}

\* The pages of each expected PDF (PdfReader(...).pages, benchmark.py:287-288).
PagesOf(pdf) == IF pdf = "a.pdf" THEN {1, 2} ELSE {1}

\* The data set: the (pdf, page, type) of the k-th assertion of all_tests. Every page
\* has an assertion (benchmark.py:286-291) and every PDF a baseline assertion
\* (benchmark.py:281-284).
Slots ==
  << [pdf |-> "a.pdf", page |-> 1, type |-> "baseline"],
     [pdf |-> "a.pdf", page |-> 2, type |-> "absent"],
     [pdf |-> "b.pdf", page |-> 1, type |-> "baseline"] >>

\* len(all_tests)
NumTests == Len(Slots)

TestIds == 1..NumTests

\* all_tests (benchmark.py:268-294): test i is a BasePDFTest with id, pdf, page, type.
all_tests ==
  [i \in TestIds |->
     [id |-> i, pdf |-> Slots[i].pdf, page |-> Slots[i].page, type |-> Slots[i].type]]

\* What one repeat does to one test: test.run passes, test.run fails with an
\* explanation, test.run raises, or open()/read() of the file raises.
Outcomes == {"pass", "fail", "raise", "unreadable"}

\* ------------------------------------------------------------- arithmetic
RECURSIVE Fact(_)
Fact(n) == IF n <= 1 THEN 1 ELSE n * Fact(n - 1)

\* A common multiple of every num_repeats in 1..MaxRepeats.
Denom == Fact(MaxRepeats)

RECURSIVE Gcd(_, _)
Gcd(a, b) == IF b = 0 THEN a ELSE Gcd(b, a % b)

\* The fraction n/d in lowest terms (d > 0, n >= 0).
Frac(n, d) == LET g == Gcd(n, d) IN [n |-> n \div g, d |-> d \div g]

Zero == Frac(0, 1)

FracAdd(x, y) == Frac(x.n * y.d + y.n * x.d, x.d * y.d)

RECURSIVE SumFrac(_)
SumFrac(s) == IF s = << >> THEN Zero ELSE FracAdd(Head(s), SumFrac(Tail(s)))

RECURSIVE SumSeq(_)
SumSeq(s) == IF s = << >> THEN 0 ELSE Head(s) + SumSeq(Tail(s))

\* sum(xs) / len(xs) if xs else 0.0  (benchmark.py:397, 443)
MeanFrac(s) ==
  IF s = << >> THEN Zero
  ELSE LET t == SumFrac(s) IN Frac(t.n, t.d * Len(s))

\* --------------------------------------------------------- the file system
\* The *.md files of the search folder (glob, benchmark.py:64), per PDF base name:
\* how many {base}_pg{page}_repeat{N}.md files each page has, and whether
\* {base}.md exists.
FileSystems ==
  [Pdfs -> [reps : [Pages -> 0..MaxRepeats], exact : BOOLEAN]]

\* A file of all_files that belongs to one PDF base name.
RepeatFile(page, n) == [kind |-> "repeat", page |-> page, n |-> n]

ExactFile == [kind |-> "exact", page |-> 0, n |-> 0]

\* The number of *.md files of one PDF's entry, and of a search folder.
FileCount(fs) ==
  SumSeq([p \in 1..Cardinality(Pages) |-> fs.reps[p]]) + (IF fs.exact THEN 1 ELSE 0)

TotalFiles(f) == SumSeq([k \in 1..Len(pdf_basenames) |-> FileCount(f[pdf_basenames[k]])])

RECURSIVE RepeatFilesFrom(_, _, _)
\* The repeat files of fs (one PDF's entry), pages p.., repeats n.., in name order.
RepeatFilesFrom(fs, p, n) ==
  IF p \notin Pages THEN << >>
  ELSE IF n > fs.reps[p] THEN RepeatFilesFrom(fs, p + 1, 1)
       ELSE <<RepeatFile(p, n)>> \o RepeatFilesFrom(fs, p, n + 1)

VARIABLES
  force,                \* args.force
  test_to_jsonl,        \* test id -> JSONL file (benchmark.py:269-275)
  files,                \* the candidate's search folder
  phase,                \* evaluate_candidate: DISCOVERING, FAILED, EVALUATING, SCORED
  main_pc,              \* main: "evaluate", "report", "final", "done"
  pdf_idx,              \* position of the discovery loop in pdf_basenames
  pdf_to_md_files,      \* benchmark.py:61
  candidate_errors,     \* benchmark.py:53
  test_failures,        \* benchmark.py:54
  test_type_breakdown,  \* benchmark.py:55
  all_test_scores,      \* benchmark.py:56
  test_results,         \* benchmark.py:57
  futures,              \* benchmark.py:166: per test, the future's state and result
  total_test_score,     \* benchmark.py:161
  evaluated_test_count, \* benchmark.py:162
  returned,             \* the tuple evaluate_candidate returned (overall_score, total_tests)
  report,               \* main's per-candidate values (benchmark.py:341-398)
  summary,              \* the candidate's row of the final summary (benchmark.py:406-466)
  executor,             \* the ThreadPoolExecutor of benchmark.py:165
  candidate_folders,    \* benchmark.py:296-325
  candidate_idx,        \* position of `for candidate in candidate_folders` (benchmark.py:331)
  summary_list,         \* main's list `summary` of one row per candidate (benchmark.py:327, 381)
  input_folder,         \* what main finds in args.dir: the pdfs folder and the jsonl files
  skip_baseline,        \* args.skip_baseline
  loaded_tests,         \* main's list all_tests while it is built (benchmark.py:268-294)
  exit_status,          \* the status main gave to sys.exit, 0 while it has not
  test_results_by_candidate,  \* benchmark.py:328, 339
  all_failed_tests,     \* benchmark.py:510
  call,                 \* a call of a function of utils.py or tests.py: its arguments
  result                \* what that call has computed so far

\* The state that one candidate's evaluation, taken test by test, leaves alone.
env_vars ==
  << executor, candidate_folders, candidate_idx, summary_list, input_folder,
     skip_baseline, loaded_tests, exit_status, test_results_by_candidate,
     all_failed_tests, call, result >>

vars ==
  << force, test_to_jsonl, files, phase, main_pc, pdf_idx, pdf_to_md_files,
     candidate_errors, test_failures, test_type_breakdown, all_test_scores,
     test_results, futures, total_test_score, evaluated_test_count, returned,
     report, summary, env_vars >>

\* The pool's threads are not followed: process_test runs as one step.
NoExecutor == [state |-> "unobserved"]

\* No call of the statistics or of an assertion is followed.
NoCall == [fn |-> "none"]

\* main's start (benchmark.py:235-294) is not followed: it is over, and the list
\* it built is all_tests.
StartupUnused ==
  /\ input_folder = [pdf_folder |-> TRUE]
  /\ skip_baseline = FALSE
  /\ loaded_tests = << >>
  /\ exit_status = 0
  /\ test_results_by_candidate = << >>
  /\ all_failed_tests = << >>
  /\ call = NoCall
  /\ result = NoCall

\* The value of env_vars while they are not followed.
EnvUnused ==
  /\ executor = NoExecutor
  /\ candidate_folders = << >>
  /\ candidate_idx = 0
  /\ summary_list = << >>
  /\ StartupUnused

NoFuture == [state |-> "pending"]

NotReturned == [done |-> FALSE]

\* benchmark.py:270-275: all_tests is the concatenation of the tests of each jsonl
\* file, so the tests of one file are contiguous: the first `split` tests come from
\* the first file, the others from the second.
LoadedFrom(split) ==
  [i \in TestIds |-> IF i <= split THEN "g1.jsonl" ELSE "g2.jsonl"]

\* The state at entry of evaluate_candidate (benchmark.py:53-64) for any flag,
\* any grouping of the tests and any content of the search folder.
Init ==
  /\ force \in BOOLEAN
  /\ \E split \in TestIds : test_to_jsonl = LoadedFrom(split)
  /\ files \in FileSystems
  /\ \A pdf \in Pdfs : \A p \in Pages \ PagesOf(pdf) : files[pdf].reps[p] = 0
  /\ TotalFiles(files) <= MaxFiles
  /\ phase = "DISCOVERING"
  /\ main_pc = "evaluate"
  /\ pdf_idx = 1
  /\ pdf_to_md_files = << >>
  /\ candidate_errors = << >>
  /\ test_failures = << >>
  /\ test_type_breakdown = << >>
  /\ all_test_scores = << >>
  /\ test_results = << >>
  /\ futures = [i \in TestIds |-> NoFuture]
  /\ total_test_score = 0
  /\ evaluated_test_count = 0
  /\ returned = NotReturned
  /\ report = NotReturned
  /\ summary = NotReturned
  /\ EnvUnused

\* ------------------------------------------------------------- discovery
\* benchmark.py:67-72 without lines 73-76: the file named exactly after the PDF is
\* never looked for.
MdFilesOfRepeatOnly(fs) == RepeatFilesFrom(fs, 1, 1)

\* benchmark.py:67-76: the md_files found for one PDF: the repeat-pattern files,
\* and only when there is none, the file named exactly after the PDF.
MdFilesOf(fs) ==
  LET md_files == RepeatFilesFrom(fs, 1, 1)
  IN  IF md_files # << >> THEN md_files
      ELSE IF fs.exact THEN <<ExactFile>>
      ELSE << >>

\* benchmark.py:78: `if not md_files and not force`, with the bug of a dropped `not`.
IsMissingWhenForced(md_files) == md_files = << >> /\ force

\* benchmark.py:78: if not md_files and not force
IsMissing(md_files) == md_files = << >> /\ ~force

\* benchmark.py:79-82: the entry of candidate_errors for a PDF without any file.
MissingPdfError(pdf) == "missing_pdf"

\* benchmark.py:66-84: one iteration of `for pdf_name in pdf_basenames`.
DiscoverPdf ==
  /\ main_pc = "evaluate"
  /\ phase = "DISCOVERING"
  /\ pdf_idx <= Len(pdf_basenames)
  /\ LET pdf_name == pdf_basenames[pdf_idx]
         md_files == MdFilesOf(files[pdf_name])
     IN  IF IsMissing(md_files)
         THEN /\ candidate_errors' = Append(candidate_errors, MissingPdfError(pdf_name))
              /\ UNCHANGED pdf_to_md_files
         ELSE /\ pdf_to_md_files' =
                   [p \in DOMAIN pdf_to_md_files \cup {pdf_name} |->
                      IF p = pdf_name THEN md_files ELSE pdf_to_md_files[p]]
              /\ UNCHANGED candidate_errors
  /\ pdf_idx' = pdf_idx + 1
  /\ UNCHANGED env_vars
  /\ UNCHANGED << force, test_to_jsonl, files, phase, main_pc, test_failures,
                  test_type_breakdown, all_test_scores, test_results, futures,
                  total_test_score, evaluated_test_count, returned, report, summary >>

\* benchmark.py:86-87: after the discovery loop, return at once when it recorded an
\* error; otherwise the tests are submitted to the pool (benchmark.py:165-166).
CheckCandidateErrors ==
  /\ main_pc = "evaluate"
  /\ phase = "DISCOVERING"
  /\ pdf_idx > Len(pdf_basenames)
  /\ IF candidate_errors # << >>
     THEN /\ phase' = "FAILED"
          /\ returned' = [done |-> TRUE, overall_score |-> Zero, total_tests |-> NumTests,
                          candidate_errors |-> candidate_errors,
                          test_failures |-> test_failures,
                          test_type_breakdown |-> test_type_breakdown,
                          all_test_scores |-> all_test_scores,
                          test_results |-> test_results]
          /\ main_pc' = "report"
     ELSE /\ phase' = "EVALUATING"
          /\ UNCHANGED << returned, main_pc >>
  /\ UNCHANGED env_vars
  /\ UNCHANGED << force, test_to_jsonl, files, pdf_idx, pdf_to_md_files,
                  candidate_errors, test_failures, test_type_breakdown,
                  all_test_scores, test_results, futures, total_test_score,
                  evaluated_test_count, report, summary >>

\* ----------------------------------------------------------- process_test
\* benchmark.py:102: pdf_to_md_files.get(pdf_name, [])
MdFilesFor(pdf_name) ==
  IF pdf_name \in DOMAIN pdf_to_md_files THEN pdf_to_md_files[pdf_name] ELSE << >>

\* benchmark.py:105: re.search(rf"_pg{test.page}_", os.path.basename(f))
IsPageFile(f, page) == f.kind = "repeat" /\ f.page = page

\* benchmark.py:111: os.path.basename(f) == os.path.basename(md_base + ".md")
IsExactFile(f) == f.kind = "exact"

\* benchmark.py:104-105 alone: the page files, without the whole-PDF fallback.
PageMdFilesNoFallback(md_files, page) ==
  SelectSeq(md_files, LAMBDA f : IsPageFile(f, page))

\* benchmark.py:104-113: the files a test of `page` is run against.
PageMdFiles(md_files, page) ==
  LET page_md_files == SelectSeq(md_files, LAMBDA f : IsPageFile(f, page))
      exact_match_files == SelectSeq(md_files, LAMBDA f : IsExactFile(f))
  IN  IF page_md_files = << >> /\ md_files # << >> /\ exact_match_files # << >>
      THEN exact_match_files
      ELSE page_md_files

\* The locals of the loop over page_md_files (benchmark.py:125-127).
LoopStart ==
  [num_repeats |-> 0, repeat_passes |-> 0, explanations |-> << >>, local_errors |-> << >>]

\* benchmark.py:128-145 without lines 143-145: an exception of test.run is not
\* recorded and the repeat is skipped like an unreadable one.
LoopStepDropsException(st, o) ==
  LET counted == [st EXCEPT !.num_repeats = @ + 1]
  IN  CASE o = "unreadable" ->
             [counted EXCEPT !.local_errors = Append(@, "read")]
        [] o = "pass" ->
             [counted EXCEPT !.repeat_passes = @ + 1]
        [] o = "fail" ->
             [counted EXCEPT !.explanations = Append(@, "mismatch")]
        [] OTHER -> counted

\* benchmark.py:128-145: one iteration of `for md_path in page_md_files`, on a file
\* whose open() or test.run() ends as `o`.
LoopStep(st, o) ==
  LET counted == [st EXCEPT !.num_repeats = @ + 1]
  IN  CASE o = "unreadable" ->
             [counted EXCEPT !.local_errors = Append(@, "read")]
        [] o = "pass" ->
             [counted EXCEPT !.repeat_passes = @ + 1]
        [] o = "fail" ->
             [counted EXCEPT !.explanations = Append(@, "mismatch")]
        [] OTHER ->
             [counted EXCEPT !.local_errors = Append(@, "run"),
                             !.explanations = Append(@, "exception")]

RECURSIVE RunLoop(_, _)
RunLoop(st, outs) ==
  IF outs = << >> THEN st ELSE RunLoop(LoopStep(st, Head(outs)), Tail(outs))

\* benchmark.py:147: repeat_passes / num_repeats if num_repeats > 0 else 0.0,
\* in units of 1/Denom.
TestAvg(repeat_passes, num_repeats) ==
  IF num_repeats > 0 THEN (repeat_passes * Denom) \div num_repeats ELSE 0

\* benchmark.py:148 with `>=` for `>`: a tie would pass.
FinalPassedOnTie(test_avg) == 2 * test_avg >= Denom

\* benchmark.py:148: final_passed = test_avg > 0.5
FinalPassed(test_avg) == 2 * test_avg > Denom

\* benchmark.py:149
FinalExplanation(explanations) ==
  IF explanations # << >> THEN explanations[1] ELSE "All repeats passed"

\* benchmark.py:115-123: what process_test returns when the page has no file.
MissingResult(test) ==
  [is_none |-> TRUE, test_avg |-> 0, repeat_passes |-> 0, num_repeats |-> 0,
   test_failure |-> FALSE, type |-> test.type,
   local_errors |-> IF ~force THEN <<"missing_page">> ELSE << >>,
   passed |-> FALSE, explanation |-> "Missing MD files"]

\* benchmark.py:154 read as `if test_avg == 0.0`: a message only when no repeat
\* passed.
HasTestFailureWhenNonePassed(test_avg) == test_avg = 0

\* benchmark.py:154-158: `if test_avg < 1.0`, a failure message is built.
HasTestFailure(test_avg) == test_avg < Denom

\* benchmark.py:125-159: what process_test returns after running the test on its
\* page files, the k-th of which ends as outs[k].
EvaluatedResult(test, outs) ==
  LET st == RunLoop(LoopStart, outs)
      test_avg == TestAvg(st.repeat_passes, st.num_repeats)
  IN  [is_none |-> FALSE, test_avg |-> test_avg,
       repeat_passes |-> st.repeat_passes, num_repeats |-> st.num_repeats,
       test_failure |-> HasTestFailure(test_avg), type |-> test.type,
       local_errors |-> st.local_errors,
       passed |-> FinalPassed(test_avg),
       explanation |-> FinalExplanation(st.explanations)]

\* benchmark.py:96-99 then 122 / 152: test_results[pdf][page].append(triple), the
\* entries of the PDF and of the page created when absent.
AppendResult(tr, pdf, page, triple) ==
  LET of_pdf == IF pdf \in DOMAIN tr THEN tr[pdf] ELSE << >>
      of_page == IF page \in DOMAIN of_pdf THEN of_pdf[page] ELSE << >>
      new_pdf == [p \in DOMAIN of_pdf \cup {page} |->
                    IF p = page THEN Append(of_page, triple) ELSE of_pdf[p]]
  IN  [q \in DOMAIN tr \cup {pdf} |-> IF q = pdf THEN new_pdf ELSE tr[q]]

\* benchmark.py:90-159: a pool worker runs process_test(test) for test i; the k-th
\* page file ends as outs[k].
ProcessTest(i) ==
  /\ main_pc = "evaluate"
  /\ phase = "EVALUATING"
  /\ futures[i].state = "pending"
  /\ LET test == all_tests[i]
         page_md_files == PageMdFiles(MdFilesFor(test.pdf), test.page)
     IN  \E outs \in [1..Len(page_md_files) -> Outcomes] :
           LET res == IF page_md_files = << >> THEN MissingResult(test)
                      ELSE EvaluatedResult(test, outs)
           IN  /\ futures' = [futures EXCEPT ![i] =
                                [state |-> "done", result |-> res,
                                 page_md_files |-> page_md_files, outs |-> outs]]
               /\ test_results' =
                    AppendResult(test_results, test.pdf, test.page,
                      [id |-> test.id, passed |-> res.passed,
                       explanation |-> res.explanation])
  /\ UNCHANGED env_vars
  /\ UNCHANGED << force, test_to_jsonl, files, phase, main_pc, pdf_idx,
                  pdf_to_md_files, candidate_errors, test_failures,
                  test_type_breakdown, all_test_scores, total_test_score,
                  evaluated_test_count, returned, report, summary >>

\* benchmark.py:155-158: the failure message of a test below full marks.
FailureMessage(i, res) ==
  [id |-> i, test_avg |-> res.test_avg, repeat_passes |-> res.repeat_passes,
   num_repeats |-> res.num_repeats]

\* benchmark.py:176-178: test_type_breakdown[test_type].append(test_avg)
AppendByType(tb, type, test_avg) ==
  [t \in DOMAIN tb \cup {type} |->
     IF t = type THEN Append(IF type \in DOMAIN tb THEN tb[type] ELSE << >>, test_avg)
     ELSE tb[t]]

\* benchmark.py:168-184: one iteration of the as_completed loop, on the completed
\* future of test i.
Collect(i) ==
  /\ main_pc = "evaluate"
  /\ phase = "EVALUATING"
  /\ futures[i].state = "done"
  /\ LET res == futures[i].result
     IN  /\ IF ~res.is_none
            THEN /\ all_test_scores' = Append(all_test_scores, res.test_avg)
                 /\ total_test_score' = total_test_score + res.test_avg
                 /\ evaluated_test_count' = evaluated_test_count + 1
                 /\ test_type_breakdown' =
                      AppendByType(test_type_breakdown, res.type, res.test_avg)
            ELSE UNCHANGED << all_test_scores, total_test_score,
                              evaluated_test_count, test_type_breakdown >>
         /\ test_failures' =
              IF res.test_failure THEN Append(test_failures, FailureMessage(i, res))
              ELSE test_failures
         /\ candidate_errors' = candidate_errors \o res.local_errors
  /\ futures' = [futures EXCEPT ![i].state = "collected"]
  /\ UNCHANGED env_vars
  /\ UNCHANGED << force, test_to_jsonl, files, phase, main_pc, pdf_idx,
                  pdf_to_md_files, test_results, returned, report, summary >>

\* benchmark.py:186: total_test_score / evaluated_test_count if evaluated_test_count > 0 else 0.0
OverallScore(total, count) ==
  IF count > 0 THEN Frac(total, Denom * count) ELSE Zero

\* benchmark.py:168: a loop that would end at the first future as_completed yields.
SomeCollected == \E i \in TestIds : futures[i].state = "collected"

\* benchmark.py:165-168: the as_completed loop ends when every submitted future
\* has been yielded, and the `with` block then shuts the pool down.
AllCollected == \A i \in TestIds : futures[i].state = "collected"

\* benchmark.py:165-187: the loop over the futures has ended and evaluate_candidate
\* returns.
Finish ==
  /\ main_pc = "evaluate"
  /\ phase = "EVALUATING"
  /\ AllCollected
  /\ phase' = "SCORED"
  /\ returned' = [done |-> TRUE,
                  overall_score |-> OverallScore(total_test_score, evaluated_test_count),
                  total_tests |-> evaluated_test_count,
                  candidate_errors |-> candidate_errors,
                  test_failures |-> test_failures,
                  test_type_breakdown |-> test_type_breakdown,
                  all_test_scores |-> all_test_scores,
                  test_results |-> test_results]
  /\ main_pc' = "report"
  /\ UNCHANGED env_vars
  /\ UNCHANGED << force, test_to_jsonl, files, pdf_idx, pdf_to_md_files,
                  candidate_errors, test_failures, test_type_breakdown,
                  all_test_scores, test_results, futures, total_test_score,
                  evaluated_test_count, report, summary >>

\* ------------------------------------------------------------------- main
RECURSIVE FirstWithId(_, _, _)
\* benchmark.py:358-359: the position of the first triple of `triples` (from k on)
\* whose test has this id, 0 when there is none.
FirstWithId(triples, k, id) ==
  IF k > Len(triples) THEN 0
  ELSE IF triples[k].id = id THEN k
  ELSE FirstWithId(triples, k + 1, id)

\* benchmark.py:354-368 without the test of line 361: a "Missing MD files" triple
\* is counted as a failed test.
TestResultCountsMissing(tr, errors, test) ==
  IF errors = << >> /\ test.pdf \in DOMAIN tr /\ test.page \in DOMAIN tr[test.pdf]
  THEN LET triples == tr[test.pdf][test.page]
           k == FirstWithId(triples, 1, test.id)
       IN  IF k = 0 THEN "none"
           ELSE IF triples[k].passed THEN "passed"
           ELSE "failed"
  ELSE "none"

\* benchmark.py:354-368 and 417-427: what main reads back for one test from the
\* candidate's test_results: "passed", "failed", or "none" when the candidate has
\* errors, the test has no triple, or its triple says "Missing MD files".
TestResult(tr, errors, test) ==
  IF errors = << >> /\ test.pdf \in DOMAIN tr /\ test.page \in DOMAIN tr[test.pdf]
  THEN LET triples == tr[test.pdf][test.page]
           k == FirstWithId(triples, 1, test.id)
       IN  IF k = 0 THEN "none"
           ELSE IF triples[k].explanation = "Missing MD files" THEN "none"
           ELSE IF triples[k].passed THEN "passed"
           ELSE "failed"
  ELSE "none"

RECURSIVE IndexOfFile(_, _, _)
\* The position of the entry of jsonl file `file` in the sequence `acc`, 0 if none.
IndexOfFile(acc, k, file) ==
  IF k > Len(acc) THEN 0
  ELSE IF acc[k].file = file THEN k
  ELSE IndexOfFile(acc, k + 1, file)

\* benchmark.py:350-351 and 413-414: jsonl_results[jsonl_file] is created when absent.
WithFile(acc, file) ==
  IF IndexOfFile(acc, 1, file) # 0 THEN acc
  ELSE Append(acc, [file |-> file, total |-> 0, passed |-> 0, scores |-> << >>])

\* benchmark.py:362-367 without the `if passed` of line 366: every counted test
\* adds to "passed".
CountedAllPassed(entry, r) ==
  IF r = "none" THEN entry
  ELSE [entry EXCEPT !.total = @ + 1,
                     !.scores = Append(@, IF r = "passed" THEN 1 ELSE 0),
                     !.passed = @ + 1]

\* benchmark.py:362-367 and 430-433: the counters of one jsonl file after a test
\* that was read back as `r`.
Counted(entry, r) ==
  IF r = "none" THEN entry
  ELSE [entry EXCEPT !.total = @ + 1,
                     !.scores = Append(@, IF r = "passed" THEN 1 ELSE 0),
                     !.passed = IF r = "passed" THEN @ + 1 ELSE @]

RECURSIVE JsonlResults(_, _, _, _)
\* benchmark.py:346-368 and 409-433: `for test in all_tests` from test k on;
\* jsonl_results as the sequence of its entries in insertion order.
JsonlResults(k, acc, tr, errors) ==
  IF k > NumTests THEN acc
  ELSE LET test == all_tests[k]
           with == WithFile(acc, test_to_jsonl[test.id])
           j == IndexOfFile(with, 1, test_to_jsonl[test.id])
       IN  JsonlResults(k + 1,
             [with EXCEPT ![j] = Counted(@, TestResult(tr, errors, test))],
             tr, errors)

RECURSIVE JsonlScores(_)
\* benchmark.py:371-374: jsonl_scores, the scores of the files that have any.
JsonlScores(results) ==
  IF results = << >> THEN << >>
  ELSE Head(results).scores \o JsonlScores(Tail(results))

RECURSIVE JsonlFileSizesWithEmpty(_)
\* benchmark.py:371-374 without the `if results["scores"]` of line 372: a size is
\* appended for every file, the files without a score included.
JsonlFileSizesWithEmpty(results) ==
  IF results = << >> THEN << >>
  ELSE <<Len(Head(results).scores)>> \o JsonlFileSizesWithEmpty(Tail(results))

RECURSIVE JsonlFileSizes(_)
\* benchmark.py:371-374: jsonl_file_sizes, the number of scores of each such file.
JsonlFileSizes(results) ==
  IF results = << >> THEN << >>
  ELSE (IF Head(results).scores # << >> THEN <<Len(Head(results).scores)>> ELSE << >>)
       \o JsonlFileSizes(Tail(results))

RECURSIVE JsonlPassRates(_)
\* benchmark.py:391-395 and 436-440: passed / total of every file with total > 0.
JsonlPassRates(results) ==
  IF results = << >> THEN << >>
  ELSE (IF Head(results).total > 0
        THEN <<Frac(Head(results).passed, Head(results).total)>> ELSE << >>)
       \o JsonlPassRates(Tail(results))

\* The flat mean over all counted tests, in place of the mean of the pass rates.
FlatScore(results) ==
  LET total == SumSeq([k \in 1..Len(results) |-> results[k].total])
      passed == SumSeq([k \in 1..Len(results) |-> results[k].passed])
  IN  IF total > 0 THEN Frac(passed, total) ELSE Zero

\* benchmark.py:397 and 443: the average of the per-JSONL pass rates.
PerCategoryScore(results) == MeanFrac(JsonlPassRates(results))

\* benchmark.py:339-398: main groups the candidate's results by jsonl file and
\* prints its errors, or its failures and average score.
Report ==
  /\ main_pc = "report"
  /\ LET results == JsonlResults(1, << >>, returned.test_results,
                                 returned.candidate_errors)
     IN  report' =
           [done |-> TRUE,
            jsonl_results |-> results,
            jsonl_scores |-> JsonlScores(results),
            jsonl_file_sizes |-> JsonlFileSizes(results),
            printed_errors |-> returned.candidate_errors # << >>,
            printed_score |-> returned.candidate_errors = << >>,
            per_category_score |->
              IF returned.candidate_errors = << >> THEN PerCategoryScore(results)
              ELSE Zero]
  /\ main_pc' = "final"
  /\ UNCHANGED env_vars
  /\ UNCHANGED << force, test_to_jsonl, files, phase, pdf_idx, pdf_to_md_files,
                  candidate_errors, test_failures, test_type_breakdown,
                  all_test_scores, test_results, futures, total_test_score,
                  evaluated_test_count, returned, summary >>

\* benchmark.py:406-479: the candidate's row of the final summary.
FinalSummary ==
  /\ main_pc = "final"
  /\ LET results == JsonlResults(1, << >>, returned.test_results,
                                 returned.candidate_errors)
     IN  summary' =
           [done |-> TRUE,
            new_overall_score |-> PerCategoryScore(results),
            total_tests |-> returned.total_tests,
            has_errors |-> returned.candidate_errors # << >>,
            status |-> IF returned.candidate_errors # << >> THEN "FAILED (errors)"
                       ELSE "score",
            test_type_breakdown |-> returned.test_type_breakdown,
            jsonl_results |-> results,
            all_test_scores |-> returned.all_test_scores]
  /\ main_pc' = "done"
  /\ UNCHANGED env_vars
  /\ UNCHANGED << force, test_to_jsonl, files, phase, pdf_idx, pdf_to_md_files,
                  candidate_errors, test_failures, test_type_breakdown,
                  all_test_scores, test_results, futures, total_test_score,
                  evaluated_test_count, returned, report >>

Next ==
  \/ DiscoverPdf
  \/ CheckCandidateErrors
  \/ \E i \in TestIds : ProcessTest(i)
  \/ \E i \in TestIds : Collect(i)
  \/ Finish
  \/ Report
  \/ FinalSummary

Spec == Init /\ [][Next]_vars

\* evaluate_candidate alone, from its entry to its return: it does not read
\* test_to_jsonl, which is held to one grouping.
InitEvaluate ==
  /\ Init
  /\ test_to_jsonl = LoadedFrom(1)

NextEvaluate ==
  \/ DiscoverPdf
  \/ CheckCandidateErrors
  \/ \E i \in TestIds : ProcessTest(i)
  \/ \E i \in TestIds : Collect(i)
  \/ Finish

SpecEvaluate == InitEvaluate /\ [][NextEvaluate]_vars

\* ------------------------------------------- the pool's worker threads
\* At most this many cores reported by os.cpu_count().
MaxCpu == 2

\* At most this many repeat files per page where the worker threads are followed.
MaxThreadRepeats == 1

\* The cap on the pool's size (benchmark.py:165).
WorkerCap == 64

\* os.cpu_count(): the number of cores, 0 standing for None.
CpuCounts == 0..MaxCpu

\* max_workers without the cap of 64.
MaxWorkersUncapped(cpu_count) == IF cpu_count = 0 THEN 1 ELSE cpu_count

\* benchmark.py:165: max_workers = min(os.cpu_count() or 1, 64)
MaxWorkers(cpu_count) ==
  LET n == IF cpu_count = 0 THEN 1 ELSE cpu_count
  IN  IF n < WorkerCap THEN n ELSE WorkerCap

\* The search folders the worker threads are followed on: every expected PDF has
\* generated documents or the run is forced, so that discovery ends without error.
DiscoveredFileSystems ==
  {f \in FileSystems :
     /\ \A pdf \in Pdfs : \A p \in Pages \ PagesOf(pdf) : f[pdf].reps[p] = 0
     /\ \A pdf \in Pdfs : \A p \in Pages : f[pdf].reps[p] <= MaxThreadRepeats
     /\ TotalFiles(f) <= MaxFiles
     /\ \A pdf \in Pdfs : ~IsMissing(MdFilesOf(f[pdf]))}

\* The state of evaluate_candidate when line 166 has submitted every test: the
\* discovery loop ended without error (benchmark.py:66-87), the pool is open
\* (benchmark.py:165) and no worker has started yet.
InitThreads ==
  /\ force \in BOOLEAN
  /\ test_to_jsonl = LoadedFrom(NumTests)
  /\ files \in DiscoveredFileSystems
  /\ phase = "EVALUATING"
  /\ main_pc = "evaluate"
  /\ pdf_idx = Len(pdf_basenames) + 1
  /\ pdf_to_md_files = [pdf \in Pdfs |-> MdFilesOf(files[pdf])]
  /\ candidate_errors = << >>
  /\ test_failures = << >>
  /\ test_type_breakdown = << >>
  /\ all_test_scores = << >>
  /\ test_results = << >>
  /\ futures = [i \in TestIds |-> NoFuture]
  /\ total_test_score = 0
  /\ evaluated_test_count = 0
  /\ returned = NotReturned
  /\ report = NotReturned
  /\ summary = NotReturned
  /\ \E cpu_count \in CpuCounts :
       executor = [state |-> "open", max_workers |-> MaxWorkers(cpu_count)]
  /\ candidate_folders = << >>
  /\ candidate_idx = 0
  /\ summary_list = << >>
  /\ StartupUnused

\* The tests a worker thread is running process_test for.
RunningTests == {i \in TestIds : futures[i].state = "running"}

\* A worker thread at `line` of process_test for its test.
AtLine(i, line) == futures[i].state = "running" /\ futures[i].line = line

\* What the steps of one worker thread leave alone.
worker_unchanged ==
  << force, test_to_jsonl, files, phase, main_pc, pdf_idx, pdf_to_md_files,
     candidate_errors, test_failures, test_type_breakdown, all_test_scores,
     total_test_score, evaluated_test_count, returned, report, summary, env_vars >>

\* benchmark.py:165-166: a worker thread of the pool takes the oldest submitted
\* test from the work queue; the pool has at most max_workers threads.
StartWorker(i) ==
  /\ phase = "EVALUATING"
  /\ futures[i].state = "pending"
  /\ \A j \in TestIds : j < i => futures[j].state # "pending"
  /\ Cardinality(RunningTests) < executor.max_workers
  /\ futures' = [futures EXCEPT ![i] = [state |-> "running", line |-> 96]]
  /\ UNCHANGED << worker_unchanged, test_results >>

\* benchmark.py:96: if pdf_name not in test_results
CheckPdfEntry(i) ==
  /\ AtLine(i, 96)
  /\ futures' = [futures EXCEPT ![i].line =
                   IF all_tests[i].pdf \notin DOMAIN test_results THEN 97 ELSE 98]
  /\ UNCHANGED << worker_unchanged, test_results >>

\* benchmark.py:97: test_results[pdf_name] = {}
SetPdfEntry(i) ==
  /\ AtLine(i, 97)
  /\ test_results' =
       [q \in DOMAIN test_results \cup {all_tests[i].pdf} |->
          IF q = all_tests[i].pdf THEN << >> ELSE test_results[q]]
  /\ futures' = [futures EXCEPT ![i].line = 98]
  /\ UNCHANGED worker_unchanged

\* benchmark.py:98: if test.page not in test_results[pdf_name]
CheckPageEntry(i) ==
  /\ AtLine(i, 98)
  /\ futures' = [futures EXCEPT ![i].line =
                   IF all_tests[i].page \notin DOMAIN test_results[all_tests[i].pdf]
                   THEN 99 ELSE 101]
  /\ UNCHANGED << worker_unchanged, test_results >>

\* benchmark.py:99: test_results[pdf_name][test.page] = []
SetPageEntry(i) ==
  /\ AtLine(i, 99)
  /\ LET of_pdf == test_results[all_tests[i].pdf]
     IN  test_results' =
           [test_results EXCEPT ![all_tests[i].pdf] =
              [p \in DOMAIN of_pdf \cup {all_tests[i].page} |->
                 IF p = all_tests[i].page THEN << >> ELSE of_pdf[p]]]
  /\ futures' = [futures EXCEPT ![i].line = 101]
  /\ UNCHANGED worker_unchanged

\* benchmark.py:101-159: the rest of process_test. The k-th page file ends as
\* outs[k]; test_results[pdf_name][test.page].append(...) (line 122 or 152) looks
\* both entries up again and raises KeyError when the page's entry is not there,
\* which ends the worker's call with that exception set on its future.
RunTest(i) ==
  /\ AtLine(i, 101)
  /\ LET test == all_tests[i]
         page_md_files == PageMdFiles(MdFilesFor(test.pdf), test.page)
     IN  \E outs \in [1..Len(page_md_files) -> Outcomes] :
           LET res == IF page_md_files = << >> THEN MissingResult(test)
                      ELSE EvaluatedResult(test, outs)
           IN  IF test.page \in DOMAIN test_results[test.pdf]
               THEN /\ futures' = [futures EXCEPT ![i] =
                                     [state |-> "done", result |-> res,
                                      page_md_files |-> page_md_files, outs |-> outs]]
                    /\ test_results' =
                         AppendResult(test_results, test.pdf, test.page,
                           [id |-> test.id, passed |-> res.passed,
                            explanation |-> res.explanation])
               ELSE /\ futures' = [futures EXCEPT ![i] =
                                     [state |-> "raised", exception |-> "KeyError"]]
                    /\ UNCHANGED test_results
  /\ UNCHANGED worker_unchanged

\* benchmark.py:165-169: future.result() re-raises the worker's exception in the
\* main thread; leaving the `with` block joins the workers (every submitted test
\* has ended by then), and the exception leaves evaluate_candidate and main.
ResultRaises(i) ==
  /\ main_pc = "evaluate"
  /\ phase = "EVALUATING"
  /\ futures[i].state = "raised"
  /\ \A j \in TestIds : futures[j].state \in {"done", "raised", "collected"}
  /\ phase' = "ABORTED"
  /\ main_pc' = "crashed"
  /\ UNCHANGED << force, test_to_jsonl, files, pdf_idx, pdf_to_md_files,
                  candidate_errors, test_failures, test_type_breakdown,
                  all_test_scores, test_results, futures, total_test_score,
                  evaluated_test_count, returned, report, summary, env_vars >>

NextThreads ==
  \/ \E i \in TestIds : StartWorker(i)
  \/ \E i \in TestIds : CheckPdfEntry(i)
  \/ \E i \in TestIds : SetPdfEntry(i)
  \/ \E i \in TestIds : CheckPageEntry(i)
  \/ \E i \in TestIds : SetPageEntry(i)
  \/ \E i \in TestIds : RunTest(i)
  \/ \E i \in TestIds : Collect(i)
  \/ \E i \in TestIds : ResultRaises(i)
  \/ Finish

\* evaluate_candidate from the submission of the tests on, its worker threads
\* followed line by line through lines 96-99.
SpecThreads == InitThreads /\ [][NextThreads]_vars

\* ------------------------------------ main's loop over the candidates
\* At most this many candidate folders in the input folder.
MaxCandidates == 2

\* The candidate folders, named so that their paths sort as the numbers do.
CandidateNames == 1..MaxCandidates

\* os.listdir (benchmark.py:304-311): the candidate folders found, in any order.
Listings ==
  {s \in UNION {[1..n -> CandidateNames] : n \in 0..MaxCandidates} :
     \A j, k \in DOMAIN s : j # k => s[j] # s[k]}

RECURSIVE Insert(_, _)
Insert(x, s) ==
  IF s = << >> THEN <<x>>
  ELSE IF x <= Head(s) THEN <<x>> \o s
  ELSE <<Head(s)>> \o Insert(x, Tail(s))

\* candidate_folders left as os.listdir gave it.
Unsorted(s) == s

RECURSIVE SortFolders(_)
\* benchmark.py:325: candidate_folders.sort()
SortFolders(s) == IF s = << >> THEN << >> ELSE Insert(Head(s), SortFolders(Tail(s)))

\* os.cpu_count() on the machines followed: none known, few cores, more than the cap.
PoolCpuCounts == CpuCounts \cup {WorkerCap + 1}

\* benchmark.py:165: the executor just created, for a machine of cpu_count cores.
\* The tests are counted: to_submit are still to be submitted by line 166, queued
\* wait in the work queue, running are in process_test on a worker thread,
\* finished have ended and collected were yielded by as_completed.
NewExecutor(cpu_count) ==
  [state |-> "open", cpu_count |-> cpu_count, max_workers |-> MaxWorkers(cpu_count),
   to_submit |-> NumTests, queued |-> 0, running |-> 0, finished |-> 0,
   collected |-> 0, raised |-> 0]

\* No executor: outside evaluate_candidate's `with` block.
ClosedExecutor == [state |-> "closed"]

\* The state of main at line 321, the candidate folders listed.
InitPool ==
  /\ force \in BOOLEAN
  /\ test_to_jsonl = LoadedFrom(NumTests)
  /\ files = [pdf \in Pdfs |-> [reps |-> [p \in Pages |-> 0], exact |-> FALSE]]
  /\ phase = "DISCOVERING"
  /\ main_pc = "candidates"
  /\ pdf_idx = 1
  /\ pdf_to_md_files = << >>
  /\ candidate_errors = << >>
  /\ test_failures = << >>
  /\ test_type_breakdown = << >>
  /\ all_test_scores = << >>
  /\ test_results = << >>
  /\ futures = [i \in TestIds |-> NoFuture]
  /\ total_test_score = 0
  /\ evaluated_test_count = 0
  /\ returned = NotReturned
  /\ report = NotReturned
  /\ summary = NotReturned
  /\ executor = ClosedExecutor
  /\ candidate_folders \in Listings
  /\ candidate_idx = 0
  /\ summary_list = << >>
  /\ StartupUnused

\* What the steps of main's loop and of the counted pool leave alone.
pool_unchanged ==
  << force, test_to_jsonl, files, phase, pdf_idx, pdf_to_md_files,
     candidate_errors, test_failures, test_type_breakdown, all_test_scores,
     test_results, futures, total_test_score, evaluated_test_count, returned,
     report, summary, input_folder, skip_baseline, loaded_tests,
     test_results_by_candidate, all_failed_tests, call, result >>

\* benchmark.py:321-323: no candidate folder, sys.exit(1).
NoCandidates ==
  /\ main_pc = "candidates"
  /\ candidate_folders = << >>
  /\ main_pc' = "exit"
  /\ exit_status' = 1
  /\ UNCHANGED << pool_unchanged, executor, candidate_folders, candidate_idx, summary_list >>

\* benchmark.py:325-331: the folders are sorted and the loop starts at the first.
SortCandidates ==
  /\ main_pc = "candidates"
  /\ candidate_folders # << >>
  /\ candidate_folders' = SortFolders(candidate_folders)
  /\ candidate_idx' = 1
  /\ main_pc' = "loop"
  /\ UNCHANGED << exit_status, pool_unchanged, executor, summary_list >>

\* benchmark.py:331-336 and 53-165: main calls evaluate_candidate for the next
\* folder; its discovery either records an error (no pool is made, lines 86-87) or
\* ends without one and the pool is created (line 165).
CallEvaluate ==
  /\ main_pc = "loop"
  /\ candidate_idx <= Len(candidate_folders)
  /\ \/ /\ main_pc' = "record"
        /\ UNCHANGED executor
     \/ /\ \E cpu_count \in PoolCpuCounts : executor' = NewExecutor(cpu_count)
        /\ main_pc' = "submit"
  /\ UNCHANGED << exit_status, pool_unchanged, candidate_folders, candidate_idx, summary_list >>

\* benchmark.py:166: executor.submit(process_test, test) for the next test.
SubmitTest ==
  /\ main_pc = "submit"
  /\ executor.to_submit > 0
  /\ executor' = [executor EXCEPT !.to_submit = @ - 1, !.queued = @ + 1]
  /\ main_pc' = IF executor.to_submit = 1 THEN "collect" ELSE "submit"
  /\ UNCHANGED << exit_status, pool_unchanged, candidate_folders, candidate_idx, summary_list >>

\* ThreadPoolExecutor (benchmark.py:165): a worker thread takes a queued test; the
\* pool has at most max_workers threads.
WorkerStart ==
  /\ executor.state = "open"
  /\ executor.queued > 0
  /\ executor.running < executor.max_workers
  /\ executor' = [executor EXCEPT !.queued = @ - 1, !.running = @ + 1]
  /\ UNCHANGED << exit_status, pool_unchanged, main_pc, candidate_folders, candidate_idx, summary_list >>

\* benchmark.py:90-159: process_test ends on its worker thread, by returning or
\* (at most once per pool here) by raising.
WorkerFinish ==
  /\ executor.state = "open"
  /\ executor.running > 0
  /\ \E raises \in (IF executor.raised = 0 THEN BOOLEAN ELSE {FALSE}) :
       executor' = [executor EXCEPT !.running = @ - 1, !.finished = @ + 1,
                                    !.raised = IF raises THEN 1 ELSE @]
  /\ UNCHANGED << exit_status, pool_unchanged, main_pc, candidate_folders, candidate_idx, summary_list >>

\* benchmark.py:168-184: as_completed yields a finished future whose call returned.
CollectResult ==
  /\ main_pc = "collect"
  /\ executor.finished - executor.collected - executor.raised > 0
  /\ executor' = [executor EXCEPT !.collected = @ + 1]
  /\ UNCHANGED << exit_status, pool_unchanged, main_pc, candidate_folders, candidate_idx, summary_list >>

\* benchmark.py:169: as_completed yields the future whose call raised, and
\* future.result() raises in the main thread.
CollectRaises ==
  /\ main_pc = "collect"
  /\ executor.raised = 1
  /\ main_pc' = "raising"
  /\ UNCHANGED << exit_status, pool_unchanged, executor, candidate_folders, candidate_idx, summary_list >>

\* benchmark.py:165: the exception leaves the `with` block once the pool has run
\* every submitted test (shutdown(wait=True)), and ends main.
Crash ==
  /\ main_pc = "raising"
  /\ executor.queued = 0 /\ executor.running = 0
  /\ executor' = [executor EXCEPT !.state = "shutdown"]
  /\ main_pc' = "crashed"
  /\ UNCHANGED << exit_status, pool_unchanged, candidate_folders, candidate_idx, summary_list >>

\* benchmark.py:165-187: every future was yielded, the `with` block shuts the pool
\* down and evaluate_candidate returns.
ReturnFromEvaluate ==
  /\ main_pc = "collect"
  /\ executor.collected = NumTests
  /\ executor' = [executor EXCEPT !.state = "shutdown"]
  /\ main_pc' = "record"
  /\ UNCHANGED << exit_status, pool_unchanged, candidate_folders, candidate_idx, summary_list >>

\* benchmark.py:339-381: main records the candidate's results and its summary row,
\* and the loop moves to the next folder.
RecordCandidate ==
  /\ main_pc = "record"
  /\ summary_list' =
       Append(summary_list,
         IF executor.state = "shutdown"
         THEN [candidate_name |-> candidate_folders[candidate_idx], failed |-> FALSE,
               submitted |-> NumTests - executor.to_submit,
               completed |-> executor.finished, in_flight |-> executor.running]
         ELSE [candidate_name |-> candidate_folders[candidate_idx], failed |-> TRUE,
               submitted |-> 0, completed |-> 0, in_flight |-> 0])
  /\ executor' = ClosedExecutor
  /\ candidate_idx' = candidate_idx + 1
  /\ main_pc' = "loop"
  /\ UNCHANGED << exit_status, pool_unchanged, candidate_folders >>

\* benchmark.py:331, 400: the loop has walked every folder.
LoopEnd ==
  /\ main_pc = "loop"
  /\ candidate_idx > Len(candidate_folders)
  /\ main_pc' = "final"
  /\ UNCHANGED << exit_status, pool_unchanged, executor, candidate_folders, candidate_idx, summary_list >>

NextPool ==
  \/ NoCandidates
  \/ SortCandidates
  \/ CallEvaluate
  \/ SubmitTest
  \/ WorkerStart
  \/ WorkerFinish
  \/ CollectResult
  \/ CollectRaises
  \/ Crash
  \/ ReturnFromEvaluate
  \/ RecordCandidate
  \/ LoopEnd

\* main's loop over the candidates, each with its own pool, the tests counted.
SpecPool == InitPool /\ [][NextPool]_vars

\* ------------------------------------------------------------ main's start
\* The assertions a dataset file may hold: those of Slots, and a baseline
\* assertion on page 2 of a.pdf.
DatasetTests ==
  << [id |-> "t1", pdf |-> "a.pdf", page |-> 1, type |-> "present"],
     [id |-> "t2", pdf |-> "a.pdf", page |-> 2, type |-> "absent"],
     [id |-> "t3", pdf |-> "b.pdf", page |-> 1, type |-> "baseline"],
     [id |-> "t4", pdf |-> "a.pdf", page |-> 2, type |-> "baseline"] >>

JsonlNames == <<"g1.jsonl", "g2.jsonl">>

\* glob (benchmark.py:244, 255-257): a sub-list of `names`, told by the set of the
\* positions kept.
SubList(names, kept) == SelectSeq(names, LAMBDA x : \E k \in kept : names[k] = x)

\* The input folders main is started on: the pdfs folder exists or not and holds
\* some of the expected PDFs; some jsonl files exist, and each dataset assertion is
\* a line of one of them or of none.
InputFolders ==
  {d \in [pdf_folder : BOOLEAN,
          pdfs : SUBSET (1..Len(pdf_basenames)),
          jsonl : SUBSET (1..Len(JsonlNames)),
          line_of : [1..Len(DatasetTests) -> 0..Len(JsonlNames)]] :
     /\ \A t \in 1..Len(DatasetTests) : d.line_of[t] # 0 => d.line_of[t] \in d.jsonl
     /\ ~d.pdf_folder => d.pdfs = {}}

\* benchmark.py:244-250: pdf_basenames
PdfBasenames(d) == SubList(pdf_basenames, d.pdfs)

\* benchmark.py:252-261: jsonl_files
JsonlFilesOf(d) == SubList(JsonlNames, d.jsonl)

\* load_tests(jsonl_path) (benchmark.py:272): the assertions of one file, in its
\* line order.
LoadTests(d, k) ==
  SelectSeq(DatasetTests,
    LAMBDA t : \E j \in 1..Len(DatasetTests) : DatasetTests[j] = t /\ d.line_of[j] = k)

RECURSIVE LoadAll(_, _)
\* benchmark.py:268-275: all_tests after the loop over jsonl_files, from file k on.
LoadAll(d, files_left) ==
  IF files_left = << >> THEN << >>
  ELSE LET k == CHOOSE j \in 1..Len(JsonlNames) : JsonlNames[j] = Head(files_left)
       IN  LoadTests(d, k) \o LoadAll(d, Tail(files_left))

RECURSIVE JsonlOfLoaded(_, _, _)
\* benchmark.py:273-274: test_to_jsonl[test.id] = jsonl_basename, for every file.
JsonlOfLoaded(d, files_left, acc) ==
  IF files_left = << >> THEN acc
  ELSE LET k == CHOOSE j \in 1..Len(JsonlNames) : JsonlNames[j] = Head(files_left)
           ids == {LoadTests(d, k)[j].id : j \in 1..Len(LoadTests(d, k))}
       IN  JsonlOfLoaded(d, Tail(files_left),
             [id \in DOMAIN acc \cup ids |->
                IF id \in ids THEN Head(files_left) ELSE acc[id]])

\* benchmark.py:283: BaselineTest(id=f"{pdf}_baseline", pdf=pdf, page=1, type="baseline")
BaselineTest(pdf) ==
  [id |-> pdf \o "_baseline", pdf |-> pdf, page |-> 1, type |-> "baseline"]

\* benchmark.py:282 without `if t.pdf == pdf`: a baseline test of any PDF counts.
HasBaselineOfAnyPdf(tests, pdf) ==
  \E k \in 1..Len(tests) : tests[k].type = "baseline"

\* benchmark.py:282: any(t.type == "baseline" for t in all_tests if t.pdf == pdf)
HasBaseline(tests, pdf) ==
  \E k \in 1..Len(tests) : tests[k].pdf = pdf /\ tests[k].type = "baseline"

RECURSIVE WithBaselines(_, _)
\* benchmark.py:281-284: all_tests after the loop over the PDFs `pdfs_left`.
WithBaselines(tests, pdfs_left) ==
  IF pdfs_left = << >> THEN tests
  ELSE WithBaselines(
         IF HasBaseline(tests, Head(pdfs_left)) THEN tests
         ELSE Append(tests, BaselineTest(Head(pdfs_left))),
         Tail(pdfs_left))

\* benchmark.py:289: any(test for test in all_tests if test.pdf == pdf and test.page == page)
HasTestOn(tests, pdf, page) ==
  \E k \in 1..Len(tests) : tests[k].pdf = pdf /\ tests[k].page = page

\* benchmark.py:286-291 with `and not args.force` dropped.
PageCheckFailsForced(tests, pdfs) ==
  \E k \in 1..Len(pdfs) : \E page \in PagesOf(pdfs[k]) : ~HasTestOn(tests, pdfs[k], page)

\* benchmark.py:286-291: some page of some PDF has no test, and the run is not forced.
PageCheckFails(tests, pdfs) ==
  /\ ~force
  /\ \E k \in 1..Len(pdfs) : \E page \in PagesOf(pdfs[k]) : ~HasTestOn(tests, pdfs[k], page)

\* The state of main at line 235, the arguments parsed.
InitStartup ==
  /\ force \in BOOLEAN
  /\ test_to_jsonl = << >>
  /\ files = [pdf \in Pdfs |-> [reps |-> [p \in Pages |-> 0], exact |-> FALSE]]
  /\ phase = "DISCOVERING"
  /\ main_pc = "start"
  /\ pdf_idx = 1
  /\ pdf_to_md_files = << >>
  /\ candidate_errors = << >>
  /\ test_failures = << >>
  /\ test_type_breakdown = << >>
  /\ all_test_scores = << >>
  /\ test_results = << >>
  /\ futures = [i \in TestIds |-> NoFuture]
  /\ total_test_score = 0
  /\ evaluated_test_count = 0
  /\ returned = NotReturned
  /\ report = NotReturned
  /\ summary = NotReturned
  /\ executor = ClosedExecutor
  /\ candidate_folders = << >>
  /\ candidate_idx = 0
  /\ summary_list = << >>
  /\ input_folder \in InputFolders
  /\ skip_baseline \in BOOLEAN
  /\ loaded_tests = << >>
  /\ exit_status = 0
  /\ test_results_by_candidate = << >>
  /\ all_failed_tests = << >>
  /\ call = NoCall
  /\ result = NoCall

\* What the steps of main's start leave alone.
startup_unchanged ==
  << force, files, phase, pdf_idx, pdf_to_md_files, candidate_errors,
     test_failures, test_type_breakdown, all_test_scores, test_results, futures,
     total_test_score, evaluated_test_count, returned, report, summary, executor,
     candidate_folders, candidate_idx, summary_list, input_folder, skip_baseline,
     test_results_by_candidate, all_failed_tests, call, result >>

\* sys.exit(1)
Exit ==
  /\ main_pc' = "exit"
  /\ exit_status' = 1

\* benchmark.py:240-242: the pdfs folder must exist.
CheckPdfFolder ==
  /\ main_pc = "start"
  /\ IF ~input_folder.pdf_folder THEN Exit
     ELSE main_pc' = "pdfs" /\ UNCHANGED exit_status
  /\ UNCHANGED << startup_unchanged, test_to_jsonl, loaded_tests >>

\* benchmark.py:244-248: it must hold a PDF.
CheckPdfFiles ==
  /\ main_pc = "pdfs"
  /\ IF PdfBasenames(input_folder) = << >> THEN Exit
     ELSE main_pc' = "jsonl" /\ UNCHANGED exit_status
  /\ UNCHANGED << startup_unchanged, test_to_jsonl, loaded_tests >>

\* benchmark.py:252-266: there must be a jsonl file.
CheckJsonlFiles ==
  /\ main_pc = "jsonl"
  /\ IF JsonlFilesOf(input_folder) = << >> THEN Exit
     ELSE main_pc' = "load" /\ UNCHANGED exit_status
  /\ UNCHANGED << startup_unchanged, test_to_jsonl, loaded_tests >>

\* benchmark.py:268-279: the tests of every jsonl file are loaded; there must be one.
LoadAllTests ==
  /\ main_pc = "load"
  /\ loaded_tests' = LoadAll(input_folder, JsonlFilesOf(input_folder))
  /\ test_to_jsonl' = JsonlOfLoaded(input_folder, JsonlFilesOf(input_folder), << >>)
  /\ IF loaded_tests' = << >> THEN Exit
     ELSE main_pc' = "baselines" /\ UNCHANGED exit_status
  /\ UNCHANGED startup_unchanged

\* benchmark.py:281-284: a baseline test is added for every PDF that has none.
InjectBaselines ==
  /\ main_pc = "baselines"
  /\ loaded_tests' = WithBaselines(loaded_tests, PdfBasenames(input_folder))
  /\ test_to_jsonl' =
       [id \in DOMAIN test_to_jsonl
               \cup {loaded_tests'[k].id : k \in (Len(loaded_tests) + 1)..Len(loaded_tests')} |->
          IF id \in DOMAIN test_to_jsonl THEN test_to_jsonl[id] ELSE "baseline"]
  /\ main_pc' = "pages"
  /\ UNCHANGED << startup_unchanged, exit_status >>

\* benchmark.py:286-291: every page of every PDF must have a test, unless forced.
CheckPages ==
  /\ main_pc = "pages"
  /\ IF PageCheckFails(loaded_tests, PdfBasenames(input_folder)) THEN Exit
     ELSE main_pc' = "skip" /\ UNCHANGED exit_status
  /\ UNCHANGED << startup_unchanged, test_to_jsonl, loaded_tests >>

\* benchmark.py:293-294: with --skip_baseline the baseline tests are removed; main
\* goes on to list the candidate folders.
SkipBaseline ==
  /\ main_pc = "skip"
  /\ loaded_tests' =
       IF skip_baseline THEN SelectSeq(loaded_tests, LAMBDA t : t.type # "baseline")
       ELSE loaded_tests
  /\ main_pc' = "candidates"
  /\ UNCHANGED << startup_unchanged, test_to_jsonl, exit_status >>

NextStartup ==
  \/ CheckPdfFolder
  \/ CheckPdfFiles
  \/ CheckJsonlFiles
  \/ LoadAllTests
  \/ InjectBaselines
  \/ CheckPages
  \/ SkipBaseline

\* main from the parsed arguments to the listing of the candidate folders.
SpecStartup == InitStartup /\ [][NextStartup]_vars

\* ------------------------------------------- main over all the candidates
\* The search folders of the candidates main is followed over: a.pdf has no
\* document, the document named after it, or one repeat document of page 1;
\* b.pdf has no document or the document named after it.
NoFiles == [reps |-> [p \in Pages |-> 0], exact |-> FALSE]

OnlyExact == [reps |-> [p \in Pages |-> 0], exact |-> TRUE]

OnlyPageOne == [reps |-> [p \in Pages |-> IF p = 1 THEN 1 ELSE 0], exact |-> FALSE]

MainFileSystems ==
  {f \in FileSystems : /\ f["a.pdf"] \in {NoFiles, OnlyExact, OnlyPageOne}
                       /\ f["b.pdf"] \in {NoFiles, OnlyExact}}

\* benchmark.py:268-284: test_to_jsonl when both files hold assertions, when one file
\* holds them all, and when the baseline assertion of b.pdf is the one line 283
\* added, which line 284 files under "baseline".
MainGroupings ==
  { LoadedFrom(1), LoadedFrom(NumTests),
    [i \in TestIds |-> IF all_tests[i].pdf = "b.pdf" THEN "baseline" ELSE "g1.jsonl"] }

\* The candidate folders of the run, sorted (benchmark.py:325).
MainCandidates == { <<1>>, <<1, 2>> }

RECURSIVE DiscoveryErrors(_, _)
\* benchmark.py:66-84: the errors of the loop over pdf_basenames from position k on,
\* md being the md_files found for each PDF.
DiscoveryErrors(md, k) ==
  IF k > Len(pdf_basenames) THEN << >>
  ELSE (IF IsMissing(md[pdf_basenames[k]]) THEN <<MissingPdfError(pdf_basenames[k])>>
        ELSE << >>) \o DiscoveryErrors(md, k + 1)

\* benchmark.py:53-57 and 161-162: the locals of evaluate_candidate.
EvaluateStart ==
  [candidate_errors |-> << >>, test_failures |-> << >>, test_type_breakdown |-> << >>,
   all_test_scores |-> << >>, test_results |-> << >>,
   total_test_score |-> 0, evaluated_test_count |-> 0]

\* benchmark.py:90-159 then 168-184 for one test whose process_test returned res: the
\* triple appended to test_results and the future taken by the as_completed loop.
EvaluateStep(st, i, res) ==
  LET test == all_tests[i]
  IN  [candidate_errors |-> st.candidate_errors \o res.local_errors,
       test_failures |->
         IF res.test_failure THEN Append(st.test_failures, FailureMessage(i, res))
         ELSE st.test_failures,
       test_type_breakdown |->
         IF ~res.is_none THEN AppendByType(st.test_type_breakdown, res.type, res.test_avg)
         ELSE st.test_type_breakdown,
       all_test_scores |->
         IF ~res.is_none THEN Append(st.all_test_scores, res.test_avg)
         ELSE st.all_test_scores,
       test_results |->
         AppendResult(st.test_results, test.pdf, test.page,
           [id |-> test.id, passed |-> res.passed, explanation |-> res.explanation]),
       total_test_score |->
         IF ~res.is_none THEN st.total_test_score + res.test_avg ELSE st.total_test_score,
       evaluated_test_count |->
         IF ~res.is_none THEN st.evaluated_test_count + 1 ELSE st.evaluated_test_count]

RECURSIVE EvaluateLoop(_, _, _)
\* benchmark.py:165-184: the tests from k on, completed in the order of submission.
EvaluateLoop(st, k, results) ==
  IF k > NumTests THEN st
  ELSE EvaluateLoop(EvaluateStep(st, k, results[k]), k + 1, results)

\* benchmark.py:104-159: what process_test returns for test i on the documents md,
\* the k-th page file ending as outs[k].
ProcessTestResult(md, i, outs) ==
  LET test == all_tests[i]
      page_md_files == PageMdFiles(md[test.pdf], test.page)
  IN  IF page_md_files = << >> THEN MissingResult(test)
      ELSE EvaluatedResult(test, outs)

\* benchmark.py:39-187: the tuple evaluate_candidate returns for the documents md
\* when process_test returned results[i] for test i.
EvaluateCandidateTuple(md, results) ==
  LET errors == DiscoveryErrors(md, 1)
      st == EvaluateLoop(EvaluateStart, 1, results)
  IN  IF errors # << >>
      THEN [done |-> TRUE, overall_score |-> Zero, total_tests |-> NumTests,
            candidate_errors |-> errors, test_failures |-> << >>,
            test_type_breakdown |-> << >>, all_test_scores |-> << >>,
            test_results |-> << >>]
      ELSE [done |-> TRUE,
            overall_score |-> OverallScore(st.total_test_score, st.evaluated_test_count),
            total_tests |-> st.evaluated_test_count,
            candidate_errors |-> st.candidate_errors,
            test_failures |-> st.test_failures,
            test_type_breakdown |-> st.test_type_breakdown,
            all_test_scores |-> st.all_test_scores,
            test_results |-> st.test_results]

\* The state of main at the `for` of line 331, the first time.
InitMain ==
  /\ force \in BOOLEAN
  /\ test_to_jsonl \in MainGroupings
  /\ candidate_folders \in MainCandidates
  /\ candidate_idx = 1
  /\ main_pc = "loop"
  /\ summary_list = << >>
  /\ test_results_by_candidate = << >>
  /\ all_failed_tests = << >>
  /\ files = [pdf \in Pdfs |-> NoFiles]
  /\ phase = "DISCOVERING"
  /\ pdf_idx = 1
  /\ pdf_to_md_files = << >>
  /\ candidate_errors = << >>
  /\ test_failures = << >>
  /\ test_type_breakdown = << >>
  /\ all_test_scores = << >>
  /\ test_results = << >>
  /\ futures = [i \in TestIds |-> NoFuture]
  /\ total_test_score = 0
  /\ evaluated_test_count = 0
  /\ returned = NotReturned
  /\ report = NotReturned
  /\ summary = NotReturned
  /\ executor = NoExecutor
  /\ input_folder = [pdf_folder |-> TRUE]
  /\ skip_baseline = FALSE
  /\ loaded_tests = << >>
  /\ exit_status = 0
  /\ call = NoCall
  /\ result = NoCall

\* What main's loop over the candidates leaves alone.
main_unchanged ==
  << force, test_to_jsonl, candidate_folders, pdf_idx, candidate_errors,
     test_failures, test_type_breakdown, all_test_scores, test_results,
     total_test_score, evaluated_test_count, summary, executor, input_folder,
     skip_baseline, loaded_tests, exit_status, call, result >>

\* benchmark.py:331-336: the call of evaluate_candidate on the next candidate
\* folder, whose search folder holds the documents f and whose k-th page file of
\* test i ends as outs_of[i][k].
EvaluateCandidate ==
  /\ main_pc = "loop"
  /\ candidate_idx <= Len(candidate_folders)
  /\ \E f \in MainFileSystems :
       LET md == [pdf \in Pdfs |-> MdFilesOf(f[pdf])]
           page_md_files == [i \in TestIds |-> PageMdFiles(md[all_tests[i].pdf], all_tests[i].page)]
       IN  \E outs_of \in [TestIds -> UNION {[1..n -> Outcomes] : n \in 0..1}] :
             /\ \A i \in TestIds : Len(outs_of[i]) = Len(page_md_files[i])
             /\ LET results == [i \in TestIds |-> ProcessTestResult(md, i, outs_of[i])]
                    tuple == EvaluateCandidateTuple(md, results)
                IN  /\ files' = f
                    /\ pdf_to_md_files' = md
                    /\ returned' = tuple
                    /\ phase' = IF DiscoveryErrors(md, 1) # << >> THEN "FAILED" ELSE "SCORED"
                    /\ futures' =
                         IF DiscoveryErrors(md, 1) # << >>
                         THEN [i \in TestIds |-> NoFuture]
                         ELSE [i \in TestIds |->
                                 [state |-> "collected", result |-> results[i],
                                  page_md_files |-> page_md_files[i], outs |-> outs_of[i]]]
  /\ report' = NotReturned
  /\ main_pc' = "report"
  /\ UNCHANGED << candidate_idx, summary_list, test_results_by_candidate,
                  all_failed_tests, main_unchanged >>

\* The interval calculate_bootstrap_ci is called for whatever the scores.
CiAlwaysBootstrap(jsonl_scores, jsonl_file_sizes) ==
  [call |-> "calculate_bootstrap_ci", scores |-> jsonl_scores, splits |-> jsonl_file_sizes]

\* benchmark.py:376-380: the interval of the candidate: the value of the call
\* calculate_bootstrap_ci(jsonl_scores, splits = jsonl_file_sizes), held as the
\* call itself, or (0.0, 0.0) without the call when there is no score.
Ci(jsonl_scores, jsonl_file_sizes) ==
  IF jsonl_scores # << >>
  THEN [call |-> "calculate_bootstrap_ci", scores |-> jsonl_scores,
        splits |-> jsonl_file_sizes]
  ELSE [call |-> "none", lower |-> Zero, upper |-> Zero]

\* benchmark.py:338-398: main stores the candidate's test_results, groups its
\* results by jsonl file, computes its interval and appends its row to summary.
ReportCandidate ==
  /\ main_pc = "report"
  /\ LET candidate_name == candidate_folders[candidate_idx]
         results == JsonlResults(1, << >>, returned.test_results,
                                 returned.candidate_errors)
         ci == Ci(JsonlScores(results), JsonlFileSizes(results))
     IN  /\ test_results_by_candidate' =
              [c \in DOMAIN test_results_by_candidate \cup {candidate_name} |->
                 IF c = candidate_name THEN returned.test_results
                 ELSE test_results_by_candidate[c]]
         /\ summary_list' =
              Append(summary_list,
                [candidate_name |-> candidate_name,
                 overall_score |-> returned.overall_score,
                 total_tests |-> returned.total_tests,
                 candidate_errors |-> returned.candidate_errors,
                 test_failures |-> returned.test_failures,
                 test_type_breakdown |-> returned.test_type_breakdown,
                 ci |-> ci,
                 all_test_scores |-> returned.all_test_scores])
         /\ report' =
              [done |-> TRUE,
               jsonl_results |-> results,
               jsonl_scores |-> JsonlScores(results),
               jsonl_file_sizes |-> JsonlFileSizes(results),
               printed_errors |-> returned.candidate_errors # << >>,
               printed_score |-> returned.candidate_errors = << >>,
               per_category_score |->
                 IF returned.candidate_errors = << >> THEN PerCategoryScore(results)
                 ELSE Zero]
  /\ candidate_idx' = candidate_idx + 1
  /\ main_pc' = "loop"
  /\ UNCHANGED << files, phase, pdf_to_md_files, futures, returned,
                  all_failed_tests, main_unchanged >>

\* benchmark.py:406-446: the row of summary at position idx with its overall_score
\* replaced by the average of the per-JSONL pass rates.
SummaryRow(row) ==
  [row EXCEPT !.overall_score =
     PerCategoryScore(JsonlResults(1, << >>,
                                   test_results_by_candidate[row.candidate_name],
                                   row.candidate_errors))]

\* benchmark.py:400-479: the loop over the candidates has ended; the final summary
\* rewrites every row of summary.
FinalSummaryAll ==
  /\ main_pc = "loop"
  /\ candidate_idx > Len(candidate_folders)
  /\ summary_list' = [k \in 1..Len(summary_list) |-> SummaryRow(summary_list[k])]
  /\ main_pc' = "output_failed"
  /\ UNCHANGED << candidate_idx, files, phase, pdf_to_md_files, futures, returned,
                  report, test_results_by_candidate, all_failed_tests, main_unchanged >>

\* benchmark.py:511: valid_candidates = [c for c in summary if not c[3]]
ValidCandidates(rows) == SelectSeq(rows, LAMBDA c : c.candidate_errors = << >>)

\* benchmark.py:518-531 for one candidate: "none" when the candidate holds no
\* triple of the test, else whether the first triple with its id says passed.
TestResultOf(trbc, candidate_name, test) ==
  LET tr == IF candidate_name \in DOMAIN trbc THEN trbc[candidate_name] ELSE << >>
  IN  IF test.pdf \in DOMAIN tr /\ test.page \in DOMAIN tr[test.pdf]
      THEN LET triples == tr[test.pdf][test.page]
               k == FirstWithId(triples, 1, test.id)
           IN  IF k = 0 THEN "none"
               ELSE IF triples[k].passed THEN "passed"
               ELSE "failed"
      ELSE "none"

\* benchmark.py:513-531: has_results after the loop over valid_candidates.
HasResults(trbc, valid, test) ==
  \E k \in 1..Len(valid) : TestResultOf(trbc, valid[k].candidate_name, test) # "none"

\* benchmark.py:513-531: any_passed after the loop over valid_candidates.
AnyPassed(trbc, valid, test) ==
  \E k \in 1..Len(valid) : TestResultOf(trbc, valid[k].candidate_name, test) = "passed"

\* benchmark.py:510-536: all_failed_tests, as the ids of its tests in the order of
\* all_tests.
AllFailedTests(rows, trbc) ==
  LET valid == ValidCandidates(rows)
  IN  SelectSeq([i \in TestIds |-> i],
        LAMBDA i : /\ HasResults(trbc, valid, all_tests[i])
                   /\ ~AnyPassed(trbc, valid, all_tests[i]))

\* benchmark.py:507-546: with --output_failed, main collects the tests that never
\* passed and saves them.
OutputFailed ==
  /\ main_pc = "output_failed"
  /\ all_failed_tests' = AllFailedTests(summary_list, test_results_by_candidate)
  /\ main_pc' = "done"
  /\ UNCHANGED << candidate_idx, summary_list, files, phase, pdf_to_md_files, futures,
                  returned, report, test_results_by_candidate, main_unchanged >>

NextMain ==
  \/ EvaluateCandidate
  \/ ReportCandidate
  \/ FinalSummaryAll
  \/ OutputFailed

\* main from its loop over the candidate folders to the export of the failed tests.
SpecMain == InitMain /\ [][NextMain]_vars

\* ------------------------------------- utils.py: calculate_bootstrap_ci
\* At most this many scores in a call of calculate_bootstrap_ci.
MaxScores == 3

\* At most this many bootstrap iterations (n_bootstrap).
MaxBootstrap == 2

\* The scores main passes (benchmark.py:364): 1.0 for a passed test, else 0.0.
ScoreValues == {0, 1}

\* The lists of jsonl_file_sizes that main can pass with n scores
\* (benchmark.py:371-374): the positive sizes of the groups, in order.
SplitsOf(n) ==
  {sp \in UNION {[1..k -> 1..n] : k \in 0..n} : SumSeq(sp) = n}

\* Every variable of the benchmark run, left alone by a call that is followed on
\* its own.
program_vars ==
  << force, test_to_jsonl, files, phase, main_pc, pdf_idx, pdf_to_md_files,
     candidate_errors, test_failures, test_type_breakdown, all_test_scores,
     test_results, futures, total_test_score, evaluated_test_count, returned,
     report, summary, executor, candidate_folders, candidate_idx, summary_list,
     input_folder, skip_baseline, loaded_tests, exit_status,
     test_results_by_candidate, all_failed_tests >>

\* The benchmark run is not followed while one call is.
NoProgram ==
  /\ force = FALSE
  /\ test_to_jsonl = << >>
  /\ files = << >>
  /\ phase = "DISCOVERING"
  /\ main_pc = "call"
  /\ pdf_idx = 1
  /\ pdf_to_md_files = << >>
  /\ candidate_errors = << >>
  /\ test_failures = << >>
  /\ test_type_breakdown = << >>
  /\ all_test_scores = << >>
  /\ test_results = << >>
  /\ futures = << >>
  /\ total_test_score = 0
  /\ evaluated_test_count = 0
  /\ returned = NotReturned
  /\ report = NotReturned
  /\ summary = NotReturned
  /\ executor = NoExecutor
  /\ candidate_folders = << >>
  /\ candidate_idx = 0
  /\ summary_list = << >>
  /\ input_folder = [pdf_folder |-> TRUE]
  /\ skip_baseline = FALSE
  /\ loaded_tests = << >>
  /\ exit_status = 0
  /\ test_results_by_candidate = << >>
  /\ all_failed_tests = << >>

\* The number of scores before group g of the splits.
GroupStart(splits, g) == SumSeq(SubSeq(splits, 1, g - 1))

\* The group that position p of the scores belongs to.
GroupOf(splits, p) ==
  CHOOSE g \in 1..Len(splits) :
    GroupStart(splits, g) < p /\ p <= GroupStart(splits, g) + splits[g]

\* The resamples of one iteration: position p of the resample is drawn, with
\* replacement, among the positions of the group of p, so that each group is
\* resampled within itself at its original size.
Resamples(splits) ==
  LET n == SumSeq(splits)
  IN  {idx \in [1..n -> 1..n] :
         \A p \in 1..n : GroupOf(splits, idx[p]) = GroupOf(splits, p)}

\* How many scores of each group the resample idx holds.
DrawnFrom(idx, splits) ==
  [g \in 1..Len(splits) |->
     Cardinality({p \in 1..Len(idx) : GroupOf(splits, idx[p]) = g})]

\* The sum of the resampled scores of group g.
GroupSum(scores, idx, splits, g) ==
  SumSeq([j \in 1..splits[g] |-> scores[idx[GroupStart(splits, g) + j]]])

\* The mean of a resampled group taken over the number of all the scores.
GroupMeanOverAll(scores, idx, splits, g) ==
  Frac(GroupSum(scores, idx, splits, g), Len(scores))

\* The mean of the resampled scores of group g.
GroupMean(scores, idx, splits, g) ==
  Frac(GroupSum(scores, idx, splits, g), splits[g])

\* The estimate of one iteration: the mean of the means of the resampled groups.
Estimate(scores, idx, splits) ==
  MeanFrac([g \in 1..Len(splits) |-> GroupMean(scores, idx, splits, g)])

FracLess(x, y) == x.n * y.d < y.n * x.d

RECURSIVE InsertFrac(_, _)
InsertFrac(x, s) ==
  IF s = << >> THEN <<x>>
  ELSE IF FracLess(Head(s), x) THEN <<Head(s)>> \o InsertFrac(x, Tail(s))
  ELSE <<x>> \o s

RECURSIVE SortFracs(_)
SortFracs(s) == IF s = << >> THEN << >> ELSE InsertFrac(Head(s), SortFracs(Tail(s)))

\* The empirical percentile num/den of the estimates, interpolated linearly
\* between the two nearest ranks.
Percentile(estimates, num, den) ==
  LET sorted == SortFracs(estimates)
      k == (num * (Len(sorted) - 1)) \div den
      f == (num * (Len(sorted) - 1)) % den
  IN  IF f = 0 THEN sorted[k + 1]
      ELSE FracAdd(Frac(sorted[k + 1].n * (den - f), sorted[k + 1].d * den),
                   Frac(sorted[k + 2].n * f, sorted[k + 2].d * den))

\* A call calculate_bootstrap_ci(scores, n_bootstrap, ci_level = 0.95, splits) at
\* its entry.
InitBootstrap ==
  /\ NoProgram
  /\ \E n \in 0..MaxScores :
       \E scores \in [1..n -> ScoreValues] :
         \E splits \in SplitsOf(n) :
           \E n_bootstrap \in 1..MaxBootstrap :
             call = [fn |-> "calculate_bootstrap_ci", scores |-> scores,
                     splits |-> splits, n_bootstrap |-> n_bootstrap]
  /\ result = [state |-> "resampling", estimates |-> << >>, drawn |-> << >>,
               lower |-> Zero, upper |-> Zero]

\* Without scores the interval is (0, 0).
ReturnNoScores ==
  /\ result.state = "resampling"
  /\ call.scores = << >>
  /\ result' = [result EXCEPT !.state = "returned", !.lower = Zero, !.upper = Zero]
  /\ UNCHANGED << call, program_vars >>

\* One bootstrap iteration: a resample of every group and its estimate.
Resample ==
  /\ result.state = "resampling"
  /\ call.scores # << >>
  /\ Len(result.estimates) < call.n_bootstrap
  /\ \E idx \in Resamples(call.splits) :
       result' = [result EXCEPT
                    !.drawn = DrawnFrom(idx, call.splits),
                    !.estimates = Append(@, Estimate(call.scores, idx, call.splits))]
  /\ UNCHANGED << call, program_vars >>

\* After n_bootstrap iterations: the 2.5 and 97.5 percentiles of the estimates.
Percentiles ==
  /\ result.state = "resampling"
  /\ call.scores # << >>
  /\ Len(result.estimates) = call.n_bootstrap
  /\ result' = [result EXCEPT !.state = "returned",
                              !.lower = Percentile(result.estimates, 1, 40),
                              !.upper = Percentile(result.estimates, 39, 40)]
  /\ UNCHANGED << call, program_vars >>

NextBootstrap ==
  \/ ReturnNoScores
  \/ Resample
  \/ Percentiles

\* One call of calculate_bootstrap_ci, iteration by iteration.
SpecBootstrap == InitBootstrap /\ [][NextBootstrap]_vars

\* --------------------------------------- the pairwise permutation test
\* At most this many paired observations in the two score vectors.
MaxPairs == 2

\* At most this many permutation iterations.
MaxPermutations == 2

\* mean(scores_a) - mean(scores_b) in units of 1/len: the vectors have one length.
MeanDiff(scores_a, scores_b) == SumSeq(scores_a) - SumSeq(scores_b)

Abs(x) == IF x < 0 THEN -x ELSE x

\* The first vector after one iteration's reassignment: observation p of the pair
\* goes to the other candidate where swap[p].
Permuted(scores_a, scores_b, swap) ==
  [p \in 1..Len(scores_a) |-> IF swap[p] THEN scores_b[p] ELSE scores_a[p]]

\* A one-sided comparison: the permuted difference is at least the observed one.
IsExtremeOneSided(scores_a, scores_b, swap) ==
  MeanDiff(Permuted(scores_a, scores_b, swap), Permuted(scores_b, scores_a, swap))
    >= MeanDiff(scores_a, scores_b)

\* The permuted difference is at least as extreme as the observed one.
IsExtreme(scores_a, scores_b, swap) ==
  Abs(MeanDiff(Permuted(scores_a, scores_b, swap), Permuted(scores_b, scores_a, swap)))
    >= Abs(MeanDiff(scores_a, scores_b))

\* The two-sided p-value: the fraction of the iterations whose permuted
\* difference is at least as extreme as the observed one.
PValue(scores_a, scores_b, swaps) ==
  Frac(Cardinality({k \in 1..Len(swaps) : IsExtreme(scores_a, scores_b, swaps[k])}),
       Len(swaps))

\* A call of the permutation test on two score vectors of one length.
InitPermutation ==
  /\ NoProgram
  /\ \E n \in 1..MaxPairs :
       \E scores_a \in [1..n -> ScoreValues] :
         \E scores_b \in [1..n -> ScoreValues] :
           \E n_permutations \in 1..MaxPermutations :
             call = [fn |-> "permutation_test", scores_a |-> scores_a,
                     scores_b |-> scores_b, n_permutations |-> n_permutations]
  /\ result = [state |-> "permuting", swaps |-> << >>, observed_diff |-> 0,
               p_value |-> Zero]

\* One iteration: every paired observation is reassigned with probability 1/2.
Permute ==
  /\ call.fn = "permutation_test"
  /\ result.state = "permuting"
  /\ Len(result.swaps) < call.n_permutations
  /\ \E swap \in [1..Len(call.scores_a) -> BOOLEAN] :
       result' = [result EXCEPT !.swaps = Append(@, swap)]
  /\ UNCHANGED << call, program_vars >>

\* After the iterations: the observed difference and the p-value.
ReturnPValue ==
  /\ call.fn = "permutation_test"
  /\ result.state = "permuting"
  /\ Len(result.swaps) = call.n_permutations
  /\ result' = [result EXCEPT
                  !.state = "returned",
                  !.observed_diff = MeanDiff(call.scores_a, call.scores_b),
                  !.p_value = PValue(call.scores_a, call.scores_b, result.swaps)]
  /\ UNCHANGED << call, program_vars >>

NextPermutation ==
  \/ Permute
  \/ ReturnPValue

\* One call of the permutation test, iteration by iteration.
SpecPermutation == InitPermutation /\ [][NextPermutation]_vars

\* ------------------------------------------- tests.py: the order assertion
\* At most this many characters in the document.
MaxDocLen == 3

\* At most this many characters in `before` and in `after`.
MaxAnchorLen == 2

Chars == {"a", "b"}

\* The documents: the text of a generated .md file.
Documents == UNION {[1..n -> Chars] : n \in 0..MaxDocLen}

\* The values of the fields `before` and `after`: not empty.
Anchors == UNION {[1..n -> Chars] : n \in 1..MaxAnchorLen}

RECURSIVE FindFirst(_, _, _)
\* The position of the first occurrence of `text` in the document from position p
\* on, 0 when it is not found (the search of `present`, no difference allowed).
FindFirst(doc, text, p) ==
  IF p + Len(text) - 1 > Len(doc) THEN 0
  ELSE IF SubSeq(doc, p, p + Len(text) - 1) = text THEN p
  ELSE FindFirst(doc, text, p + 1)

\* The verdict from the positions, a text that is not found passing for one at
\* position 0.
OrderPassesUnfound(i, j) == i < j

\* The verdict from the positions i of `before` and j of `after`, 0 for not found.
OrderPasses(i, j) == i # 0 /\ j # 0 /\ i < j

\* The run of an order assertion on a document: (passed, explanation).
OrderTest(doc, before, after) ==
  LET i == FindFirst(doc, before, 1)
      j == FindFirst(doc, after, 1)
  IN  [passed |-> OrderPasses(i, j),
       explanation |-> IF i = 0 THEN "before not found"
                       ELSE IF j = 0 THEN "after not found"
                       ELSE IF OrderPasses(i, j) THEN ""
                       ELSE "misordered"]

\* An order assertion and the document it is about to be run on.
InitOrder ==
  /\ NoProgram
  /\ \E doc \in Documents : \E before \in Anchors : \E after \in Anchors :
       call = [fn |-> "order", doc |-> doc, before |-> before, after |-> after]
  /\ result = [state |-> "running", passed |-> FALSE, explanation |-> ""]

\* test.run(md_content) of the order assertion.
RunOrderTest ==
  /\ call.fn = "order"
  /\ result.state = "running"
  /\ LET r == OrderTest(call.doc, call.before, call.after)
     IN  result' = [state |-> "returned", passed |-> r.passed,
                    explanation |-> r.explanation]
  /\ UNCHANGED << call, program_vars >>

NextOrder == RunOrderTest

\* One run of one order assertion.
SpecOrder == InitOrder /\ [][NextOrder]_vars

\* ------------------------------------------------- gt/update_gt.py
\* The clock runs over the seconds 0..MaxClock.
MaxClock == 1

\* File names are sequences of characters.
JsonlExt == <<".", "j", "s", "o", "n", "l">>

DigitChars == <<"0", "1", "2", "3", "4", "5", "6", "7", "8", "9">>

IsDigit(c) == \E k \in 1..Len(DigitChars) : DigitChars[k] = c

\* The dataset files of the directory and what they hold at first: one line per
\* assertion, told by its type, and blank lines.
DatasetDirectory ==
  (<<"g", "1">> \o JsonlExt) :> <<"baseline", "", "present">>
  @@ (<<"g", "2">> \o JsonlExt) :> <<"present">>

\* The gt_file arguments: a file name, a name without extension, a missing file.
GtFileArgs == {<<"g", "1">> \o JsonlExt, <<"g", "1">>, <<"g", "3">> \o JsonlExt}

\* --remove-where type VALUE and --update-field type OLD NEW, "" for not given.
RemoveWhereArgs == {"", "baseline"}

UpdateFieldArgs == {<<"", "">>, <<"present", "absent">>}

\* update_gt.py:14-22: load_jsonl keeps the lines that are not blank.
LoadJsonl(content) == SelectSeq(content, LAMBDA line : line # "")

\* update_gt.py:25-29: save_jsonl writes one line per item.
SaveJsonl(data) == data

\* update_gt.py:53-84: update_gt_data
UpdateGtData(data, args) ==
  LET kept == IF args.remove_where # ""
              THEN SelectSeq(data, LAMBDA item : item # args.remove_where)
              ELSE data
  IN  IF args.update_field[1] # ""
      THEN [k \in 1..Len(kept) |->
              IF kept[k] = args.update_field[1] THEN args.update_field[2] ELSE kept[k]]
      ELSE kept

\* os.path.splitext (update_gt.py:38-39, 127): the position of the last dot of the
\* name that is not its first character, 0 when there is none.
ExtStart(name) ==
  LET dots == {k \in 2..Len(name) : name[k] = "."}
  IN  IF dots = {} THEN 0 ELSE CHOOSE k \in dots : \A j \in dots : j <= k

BaseName(name) ==
  IF ExtStart(name) = 0 THEN name ELSE SubSeq(name, 1, ExtStart(name) - 1)

Extension(name) ==
  IF ExtStart(name) = 0 THEN << >> ELSE SubSeq(name, ExtStart(name), Len(name))

\* update_gt.py:126-128: a name without extension gets ".jsonl".
WithExtension(name) == IF Extension(name) = << >> THEN name \o JsonlExt ELSE name

TwoDigits(n) == <<DigitChars[(n \div 10) + 1], DigitChars[(n % 10) + 1]>>

\* update_gt.py:42: datetime.now().strftime("%Y%m%d_%H%M%S") at second `clock` of
\* 2024-01-01.
Timestamp(clock) ==
  <<"2", "0", "2", "4", "0", "1", "0", "1", "_">>
  \o TwoDigits(clock \div 3600) \o TwoDigits((clock \div 60) % 60)
  \o TwoDigits(clock % 60)

\* update_gt.py:44 with the stamp before the base name.
BackupPathStampFirst(file_path, clock) ==
  Timestamp(clock) \o <<"_">> \o BaseName(file_path) \o Extension(file_path)

\* update_gt.py:38-44: backup_path = f"{base_name}_{timestamp}{extension}"
BackupPath(file_path, clock) ==
  BaseName(file_path) \o <<"_">> \o Timestamp(clock) \o Extension(file_path)

\* A name ends with `suffix`.
EndsWith(name, suffix) ==
  /\ Len(name) >= Len(suffix)
  /\ SubSeq(name, Len(name) - Len(suffix) + 1, Len(name)) = suffix

\* benchmark.py:257: re.search(r'_\d{8}_\d{6}\.jsonl$', f)
IsBackupName(f) ==
  LET n == Len(f)
  IN  /\ n >= 22
      /\ f[n - 21] = "_"
      /\ \A k \in (n - 20)..(n - 13) : IsDigit(f[k])
      /\ f[n - 12] = "_"
      /\ \A k \in (n - 11)..(n - 6) : IsDigit(f[k])
      /\ SubSeq(f, n - 5, n) = JsonlExt

\* benchmark.py:255-257: the *.jsonl files of the directory that are not backups.
ScanJsonlFiles(dir) ==
  {f \in DOMAIN dir : EndsWith(f, JsonlExt) /\ ~IsBackupName(f)}

\* The content of a file after a write that stopped early: some of its first lines.
Prefixes(content) == {SubSeq(content, 1, n) : n \in 0..Len(content)}

\* The directory with `content` written to file `name`.
Written(dir, name, content) ==
  [f \in DOMAIN dir \cup {name} |-> IF f = name THEN content ELSE dir[f]]

NoRun == [fn |-> "none"]

\* The dataset directory before any run of update_gt, at second 0.
InitUpdateGt ==
  /\ NoProgram
  /\ call = NoRun
  /\ result = [state |-> "idle", directory |-> DatasetDirectory, clock |-> 0,
               data |-> << >>, exit |-> 0, jsonl_files |-> {}]

\* A second passes.
Tick ==
  /\ result.clock < MaxClock
  /\ result' = [result EXCEPT !.clock = @ + 1]
  /\ UNCHANGED << call, program_vars >>

\* update_gt.py:116-133: the arguments are parsed, the name completed, and main
\* returns 1 when the file is not there.
ParseArgs ==
  /\ result.state = "idle"
  /\ \E gt_file \in GtFileArgs, no_dry_run \in BOOLEAN,
        remove_where \in RemoveWhereArgs, update_field \in UpdateFieldArgs :
       /\ call' = [fn |-> "update_gt", gt_file |-> WithExtension(gt_file),
                   no_dry_run |-> no_dry_run, remove_where |-> remove_where,
                   update_field |-> update_field]
       /\ result' = IF WithExtension(gt_file) \in DOMAIN result.directory
                    THEN [result EXCEPT !.state = "load", !.data = << >>]
                    ELSE [result EXCEPT !.state = "idle", !.exit = 1, !.data = << >>]
  /\ UNCHANGED program_vars

\* update_gt.py:135-144: the file is loaded and the data updated.
LoadAndUpdate ==
  /\ result.state = "load"
  /\ result' = [result EXCEPT
                  !.state = "updated",
                  !.data = UpdateGtData(LoadJsonl(result.directory[call.gt_file]), call)]
  /\ UNCHANGED << call, program_vars >>

\* update_gt.py:146 read as never true: every run saves.
IsDryRunNever(args) == FALSE

\* update_gt.py:146: if not args.no_dry_run
IsDryRun(args) == ~args.no_dry_run

\* update_gt.py:146-152: without --no-dry-run main returns 0 here.
DryRun ==
  /\ result.state = "updated"
  /\ IsDryRun(call)
  /\ result' = [result EXCEPT !.state = "idle", !.exit = 0]
  /\ UNCHANGED << call, program_vars >>

\* update_gt.py:155 and 32-50: backup_file copies the file to its backup path.
BackupFile ==
  /\ result.state = "updated"
  /\ ~IsDryRun(call)
  /\ result' = [result EXCEPT
                  !.state = "save",
                  !.directory = Written(@, BackupPath(call.gt_file, result.clock),
                                        @[call.gt_file])]
  /\ UNCHANGED << call, program_vars >>

\* update_gt.py:47: shutil.copy2 raises: the backup is not written, or only some
\* of it is, and the exception leaves main.
BackupRaises ==
  /\ result.state = "updated"
  /\ ~IsDryRun(call)
  /\ \/ result' = [result EXCEPT !.state = "idle", !.exit = 2]
     \/ \E part \in Prefixes(result.directory[call.gt_file]) :
          /\ part # result.directory[call.gt_file]
          /\ result' = [result EXCEPT
                          !.state = "idle", !.exit = 2,
                          !.directory =
                            Written(@, BackupPath(call.gt_file, result.clock), part)]
  /\ UNCHANGED << call, program_vars >>

\* update_gt.py:159 and 25-29: the updated data is written over the file and main
\* returns 0.
SaveUpdated ==
  /\ result.state = "save"
  /\ result' = [result EXCEPT
                  !.state = "idle", !.exit = 0,
                  !.directory = Written(@, call.gt_file, SaveJsonl(result.data))]
  /\ UNCHANGED << call, program_vars >>

\* update_gt.py:27-29: open(file_path, 'w') or a write raises: the file holds some
\* of the first items only.
SaveRaises ==
  /\ result.state = "save"
  /\ \E part \in Prefixes(SaveJsonl(result.data)) :
       /\ part # SaveJsonl(result.data)
       /\ result' = [result EXCEPT !.state = "idle", !.exit = 2,
                                   !.directory = Written(@, call.gt_file, part)]
  /\ UNCHANGED << call, program_vars >>

\* benchmark.py:252-257: a benchmark run over the directory lists its jsonl files.
ScanDirectory ==
  /\ result.state = "idle"
  /\ result' = [result EXCEPT !.jsonl_files = ScanJsonlFiles(result.directory)]
  /\ UNCHANGED << call, program_vars >>

NextUpdateGt ==
  \/ Tick
  \/ ParseArgs
  \/ LoadAndUpdate
  \/ DryRun
  \/ BackupFile
  \/ BackupRaises
  \/ SaveUpdated
  \/ SaveRaises
  \/ ScanDirectory

\* Runs of update_gt on the dataset directory, one after the other, and the scans
\* of the directory by benchmark runs between them.
SpecUpdateGt == InitUpdateGt /\ [][NextUpdateGt]_vars

\* ------------------------------------------- parsers/llamaparse/parse.py
\* At most this many input files in one run.
MaxInputs == 3

\* The files under the input directory, or named by the lines of the file list:
\* the directory of each below the input directory (or the working directory),
\* the stem of its name and its suffix.
InputFiles ==
  << [dir |-> << >>, stem |-> "a", suffix |-> ".pdf"],
     [dir |-> << >>, stem |-> "a", suffix |-> ".docx"],
     [dir |-> << >>, stem |-> "b", suffix |-> ".PDF"],
     [dir |-> <<"x">>, stem |-> "a", suffix |-> ".pdf"] >>

\* --extensions (parse.py:410-416)
ExtensionArgs == {{".pdf"}, {".pdf", ".docx"}}

\* str.lower() of a suffix.
Lower(suffix) == IF suffix = ".PDF" THEN ".pdf" ELSE suffix

\* parse.py:167, 198, 204: any(file.lower().endswith(ext.lower()) for ext in extensions)
MatchesExtensions(file, extensions) ==
  \E ext \in extensions : Lower(file.suffix) = Lower(ext)

\* parse.py:143-171: load_file_paths, the lines of the file list that match.
LoadFilePaths(present, extensions) ==
  SelectSeq(present, LAMBDA file : MatchesExtensions(file, extensions))

\* parse.py:174-209: find_files_in_dir, the whole tree or its top level only.
FindFilesInDir(present, extensions, recursive) ==
  SelectSeq(present,
    LAMBDA file : /\ MatchesExtensions(file, extensions)
                  /\ (recursive \/ file.dir = << >>))

\* parse.py:442-451: file_paths for the three kinds of input.
FilePathsOf(mode, present, extensions) ==
  IF mode = "file_list" THEN LoadFilePaths(present, extensions)
  ELSE FindFilesInDir(present, extensions, mode = "recursive")

\* parse.py:34-52: output_path, below output_dir: the directory of the file
\* relative to input_base_dir when there is one, and Path(file_path).stem + ".md".
OutputPath(file_path, output_dir, input_base_dir) ==
  IF input_base_dir /\ file_path.dir # << >>
  THEN <<output_dir>> \o file_path.dir \o <<file_path.stem \o ".md">>
  ELSE <<output_dir, file_path.stem \o ".md">>

\* parse.py:117 returning at the first task that has ended.
SomeTaskEnded(tasks) == \E i \in 1..Len(tasks) : tasks[i].state = "ended"

\* parse.py:117: asyncio.gather returns when every task has ended.
AllTasksEnded(tasks) == \A i \in 1..Len(tasks) : tasks[i].state = "ended"

NoResult == [success |-> FALSE, file_path |-> << >>, error |-> "", output_path |-> << >>]

\* main has parsed its arguments (parse.py:389-431): the kind of input, the
\* extensions and the files that are there.
InitParse ==
  /\ NoProgram
  /\ \E mode \in {"file_list", "directory", "recursive"},
        extensions \in ExtensionArgs,
        kept \in SUBSET (1..Len(InputFiles)) :
       /\ Cardinality(kept) <= MaxInputs
       /\ call = [fn |-> "parse", mode |-> mode, extensions |-> extensions,
                  present |-> SelectSeq(InputFiles,
                                LAMBDA file : \E k \in kept : InputFiles[k] = file)]
  /\ result = [state |-> "main", file_paths |-> << >>, input_base_dir |-> FALSE,
               tasks |-> << >>, written |-> << >>, results |-> << >>]

\* parse.py:442-458: the input files are listed; main returns when there is none.
ListFiles ==
  /\ result.state = "main"
  /\ LET file_paths == FilePathsOf(call.mode, call.present, call.extensions)
     IN  result' = [result EXCEPT
                      !.state = IF file_paths = << >> THEN "no_files" ELSE "listed",
                      !.file_paths = file_paths,
                      !.input_base_dir = (call.mode = "recursive")]
  /\ UNCHANGED << call, program_vars >>

\* parse.py:460-499 and 105-117: the output directory is made and one task per
\* file is created and handed to asyncio.gather; each runs up to its first await.
CreateTasks ==
  /\ result.state = "listed"
  /\ result' = [result EXCEPT
                  !.state = "gathering",
                  !.tasks = [i \in 1..Len(result.file_paths) |->
                               [state |-> "aparse", result |-> NoResult]]]
  /\ UNCHANGED << call, program_vars >>

\* parse.py:28: parser.aparse(file_path) returns.
AParseReturns(i) ==
  /\ result.state = "gathering"
  /\ result.tasks[i].state = "aparse"
  /\ result' = [result EXCEPT !.tasks[i].state = "nodes"]
  /\ UNCHANGED << call, program_vars >>

\* parse.py:74-82: the result of a task whose try block raised.
Failed(file_path, error) ==
  [success |-> FALSE, file_path |-> file_path, error |-> error,
   output_path |-> << >>]

\* parse.py:28 and 74-82: parser.aparse raises and the task returns the failure.
AParseRaises(i) ==
  /\ result.state = "gathering"
  /\ result.tasks[i].state = "aparse"
  /\ result' = [result EXCEPT
                  !.tasks[i] = [state |-> "ended",
                                result |-> Failed(result.file_paths[i], "aparse")]]
  /\ UNCHANGED << call, program_vars >>

\* parse.py:31-72: the markdown nodes arrive, the output path is computed and the
\* file written in one go (no await in between), and the task returns.
SaveMarkdown(i) ==
  /\ result.state = "gathering"
  /\ result.tasks[i].state = "nodes"
  /\ LET output_path == OutputPath(result.file_paths[i], "runs", result.input_base_dir)
     IN  result' = [result EXCEPT
                      !.written = [q \in DOMAIN result.written \cup {output_path} |->
                                     IF q = output_path THEN i ELSE result.written[q]],
                      !.tasks[i] =
                        [state |-> "ended",
                         result |-> [success |-> TRUE,
                                     file_path |-> result.file_paths[i],
                                     error |-> "", output_path |-> output_path]]]
  /\ UNCHANGED << call, program_vars >>

\* parse.py:31, 45-58 and 74-82: aget_markdown_nodes, os.makedirs or open raises:
\* nothing is written and the task returns the failure.
SaveMarkdownRaises(i) ==
  /\ result.state = "gathering"
  /\ result.tasks[i].state = "nodes"
  /\ \E error \in {"aget_markdown_nodes", "open"} :
       result' = [result EXCEPT
                    !.tasks[i] = [state |-> "ended",
                                  result |-> Failed(result.file_paths[i], error)]]
  /\ UNCHANGED << call, program_vars >>

\* parse.py:117-140: gather returns the results of the tasks in the order the
\* tasks were given.
Gather ==
  /\ result.state = "gathering"
  /\ AllTasksEnded(result.tasks)
  /\ result' = [result EXCEPT
                  !.state = "returned",
                  !.results = [i \in 1..Len(result.tasks) |-> result.tasks[i].result]]
  /\ UNCHANGED << call, program_vars >>

NextParse ==
  \/ ListFiles
  \/ CreateTasks
  \/ \E i \in 1..Len(result.tasks) : AParseReturns(i)
  \/ \E i \in 1..Len(result.tasks) : AParseRaises(i)
  \/ \E i \in 1..Len(result.tasks) : SaveMarkdown(i)
  \/ \E i \in 1..Len(result.tasks) : SaveMarkdownRaises(i)
  \/ Gather

\* One run of parse.py's main: the tasks of parse_multiple_files_parallel
\* interleaved at their awaits.
SpecParse == InitParse /\ [][NextParse]_vars

\* ------------------------------------------------------------ the claims
\* What the futures say, independently of test_results and of main's counters.
Done(i) == futures[i].state # "pending"

Evaluated(i) == Done(i) /\ ~futures[i].result.is_none

Count(s, x) == Cardinality({k \in 1..Len(s) : s[k] = x})

\* The tests of one jsonl file that were evaluated, and those of them that passed.
EvaluatedOf(g) == {i \in TestIds : test_to_jsonl[i] = g /\ Evaluated(i)}

PassedOf(g) == {i \in EvaluatedOf(g) : futures[i].result.passed}

JsonlFiles == {test_to_jsonl[i] : i \in TestIds}

\* The jsonl files with an evaluated test, in some order.
ScoredFiles == {g \in JsonlFiles : EvaluatedOf(g) # {}}

RECURSIVE MeanOfRates(_, _)
\* The sum of |PassedOf(g)| / |EvaluatedOf(g)| over the files of S, added to acc.
MeanOfRates(S, acc) ==
  IF S = {} THEN acc
  ELSE LET g == CHOOSE x \in S : TRUE
       IN  MeanOfRates(S \ {g},
             FracAdd(acc, Frac(Cardinality(PassedOf(g)), Cardinality(EvaluatedOf(g)))))

\* The unweighted mean of the pass rates of the files with an evaluated test.
ExpectedScore ==
  IF ScoredFiles = {} THEN Zero
  ELSE LET t == MeanOfRates(ScoredFiles, Zero)
       IN  Frac(t.n, t.d * Cardinality(ScoredFiles))

\* C1: every assertion evaluated against at least one page document has
\* pass_ratio = repeat_passes / num_repeats within [0,1], and final_passed (also
\* the flag stored in test_results) is true exactly when more than half of the
\* repeats passed; a ratio of exactly 1/2 gives final_passed = false.
C1_PassRatioMajority ==
  \A i \in TestIds :
    Evaluated(i) =>
      LET res == futures[i].result
          triples == test_results[all_tests[i].pdf][all_tests[i].page]
      IN  /\ res.num_repeats = Len(futures[i].page_md_files)
          /\ res.num_repeats > 0
          /\ res.repeat_passes = Count(futures[i].outs, "pass")
          /\ res.test_avg * res.num_repeats = res.repeat_passes * Denom
          /\ 0 <= res.test_avg /\ res.test_avg <= Denom
          /\ res.passed <=> (2 * res.repeat_passes > res.num_repeats)
          /\ (2 * res.repeat_passes = res.num_repeats) => ~res.passed
          /\ \E k \in 1..Len(triples) :
               triples[k].id = i /\ triples[k].passed = res.passed

\* C1 witness: a test with two repeats of which exactly one passed.
C1_Witness ==
  \E i \in TestIds :
    /\ Evaluated(i)
    /\ futures[i].result.num_repeats = 2
    /\ futures[i].result.repeat_passes = 1
    /\ ~futures[i].result.passed

HasNoFile(pdf) ==
  /\ ~files[pdf].exact
  /\ \A p \in Pages : files[pdf].reps[p] = 0

\* C3: not forced, and some expected PDF has no file at all: process_test runs for
\* no test (also not for tests of PDFs that have files), and evaluate_candidate
\* returns score 0.0, a non-empty candidate_errors, and an empty per-type
\* breakdown, score list and results map.
C3_MissingPdfIsFatal ==
  (~force /\ \E pdf \in Pdfs : HasNoFile(pdf)) =>
    /\ \A i \in TestIds : ~Done(i)
    /\ phase \in {"DISCOVERING", "FAILED"}
    /\ returned.done =>
         /\ returned.overall_score = Zero
         /\ returned.candidate_errors # << >>
         /\ DOMAIN returned.test_type_breakdown = {}
         /\ returned.all_test_scores = << >>
         /\ DOMAIN returned.test_results = {}

\* C3 witness: a.pdf has no file, b.pdf (which has a test) has one, and
\* evaluate_candidate has returned.
C3_Witness ==
  /\ ~force
  /\ HasNoFile("a.pdf") /\ ~HasNoFile("b.pdf")
  /\ \E i \in TestIds : all_tests[i].pdf = "b.pdf"
  /\ returned.done
  /\ phase = "FAILED"

\* The repeats of test i whose file could be read.
Readable(i) == {k \in 1..Len(futures[i].outs) : futures[i].outs[k] # "unreadable"}

\* C4 (as claimed): a repeat whose file cannot be read is removed from the
\* denominator: pass_ratio = passes among the readable repeats / number of
\* readable repeats.
C4_UnreadableLeavesDenominator ==
  \A i \in TestIds :
    (Evaluated(i) /\ Readable(i) # {}) =>
      futures[i].result.test_avg * Cardinality(Readable(i))
        = Count(futures[i].outs, "pass") * Denom

\* A test whose page has no generated document: no repeat file of the page and no
\* whole-PDF file.
NoDocument(i) ==
  /\ files[all_tests[i].pdf].reps[all_tests[i].page] = 0
  /\ ~files[all_tests[i].pdf].exact

TypesSeen == {all_tests[i].type : i \in TestIds}

\* The tests of one type that were evaluated.
EvaluatedOfType(t) == {i \in TestIds : all_tests[i].type = t /\ Evaluated(i)}

\* The entry of jsonl file g in main's jsonl_results.
EntryOf(results, g) == results[IndexOfFile(results, 1, g)]

\* C5: forced, and the page of a test has no generated document: process_test
\* returns pass_ratio None and no error for it, and the test is counted nowhere:
\* the evaluated count, total score and score list, the per-type lists, the
\* per-jsonl totals and the bootstrap's scores count exactly the other tests.
C5_ForcedMissingIsExcluded ==
  force =>
    /\ \A i \in TestIds :
         (Done(i) /\ NoDocument(i)) =>
           /\ futures[i].result.is_none
           /\ futures[i].result.local_errors = << >>
           /\ ~futures[i].result.test_failure
    /\ returned.done =>
         /\ \A i \in TestIds : NoDocument(i) => ~Evaluated(i)
         /\ returned.total_tests = Cardinality({i \in TestIds : Evaluated(i)})
         /\ Len(returned.all_test_scores) = returned.total_tests
         /\ returned.overall_score =
              OverallScore(SumSeq([i \in TestIds |->
                             IF Evaluated(i) THEN futures[i].result.test_avg ELSE 0]),
                           returned.total_tests)
         /\ \A t \in TypesSeen :
              IF EvaluatedOfType(t) = {}
              THEN t \notin DOMAIN returned.test_type_breakdown
              ELSE Len(returned.test_type_breakdown[t]) = Cardinality(EvaluatedOfType(t))
    /\ (report.done /\ returned.candidate_errors = << >>) =>
         /\ \A g \in JsonlFiles :
              /\ EntryOf(report.jsonl_results, g).total = Cardinality(EvaluatedOf(g))
              /\ EntryOf(report.jsonl_results, g).passed = Cardinality(PassedOf(g))
         /\ Len(report.jsonl_scores) = returned.total_tests
         /\ SumSeq(report.jsonl_file_sizes) = returned.total_tests

\* C5 witness: forced, one test without a document and one evaluated test, no
\* error, the report made.
C5_Witness ==
  /\ force
  /\ report.done
  /\ returned.candidate_errors = << >>
  /\ \E i \in TestIds : NoDocument(i) /\ futures[i].result.is_none
  /\ \E i \in TestIds : Evaluated(i)

LifecycleEdge(from, to) ==
  \/ from = to
  \/ from = "DISCOVERING" /\ to \in {"FAILED", "EVALUATING"}
  \/ from = "EVALUATING" /\ to = "SCORED"

\* C7, in every state: no test is evaluated before the discovery loop has walked
\* every expected PDF; FAILED carries score 0 and the errors of discovery, and
\* nothing was evaluated; after a discovery without error the candidate is never
\* FAILED; SCORED is reached only with every submitted evaluation completed.
C7_LifecycleState ==
  /\ phase \in {"DISCOVERING", "FAILED", "EVALUATING", "SCORED"}
  /\ (\E i \in TestIds : Done(i)) =>
       pdf_idx > Len(pdf_basenames) /\ phase \in {"EVALUATING", "SCORED"}
  /\ phase = "FAILED" =>
       /\ pdf_idx > Len(pdf_basenames)
       /\ returned.done
       /\ returned.overall_score = Zero
       /\ Count(returned.candidate_errors, "missing_pdf") > 0
  /\ phase \in {"EVALUATING", "SCORED"} =>
       /\ pdf_idx > Len(pdf_basenames)
       /\ Count(candidate_errors, "missing_pdf") = 0
  /\ phase = "SCORED" =>
       /\ returned.done
       /\ \A i \in TestIds : futures[i].state = "collected"

\* C7, in every step: the phase moves only along the lifecycle's edges (so FAILED
\* and SCORED are never left), and the discovery ends in FAILED exactly when it
\* recorded an error.
C7_LifecycleStep ==
  /\ LifecycleEdge(phase, phase')
  /\ (phase = "DISCOVERING" /\ phase' # "DISCOVERING") =>
       /\ pdf_idx > Len(pdf_basenames)
       /\ phase' = "FAILED" <=> candidate_errors # << >>

\* C7: each candidate follows DISCOVERING -> (FAILED | EVALUATING -> SCORED).
C7_Lifecycle == [](C7_LifecycleState) /\ [][C7_LifecycleStep]_vars

\* C7 witness: a candidate was scored after its three tests were evaluated.
C7_Witness ==
  /\ phase = "SCORED"
  /\ \A i \in TestIds : Evaluated(i)

\* A test whose PDF has generated documents while its own page has none.
PageMissing(i) ==
  /\ ~HasNoFile(all_tests[i].pdf)
  /\ Done(i)
  /\ futures[i].result.is_none

\* C8 (as claimed): not forced, and a PDF has generated documents but one of its
\* pages has none: the candidate is scored zero and no per-type, per-jsonl or raw
\* score entry is reported for it.
C8_MissingPageExcludesCandidate ==
  (summary.done /\ ~force /\ \E i \in TestIds : PageMissing(i)) =>
    /\ summary.status = "FAILED (errors)"
    /\ summary.new_overall_score = Zero
    /\ \A k \in 1..Len(summary.jsonl_results) : summary.jsonl_results[k].total = 0
    /\ DOMAIN summary.test_type_breakdown = {}
    /\ summary.all_test_scores = << >>

\* The candidate's only errors are those of single repeats (a file that cannot be
\* read, a test.run that raised).
OnlyRepeatErrors ==
  /\ returned.candidate_errors # << >>
  /\ \A k \in 1..Len(returned.candidate_errors) :
       returned.candidate_errors[k] \in {"read", "run"}

\* C9 (as claimed): errors of single repeats are recovered locally: the tests are
\* still counted in the per-jsonl pass rates and the primary score, and the
\* candidate is not reported as FAILED (errors) with score zero.
C9_RepeatErrorsAreLocal ==
  (summary.done /\ OnlyRepeatErrors) =>
    /\ summary.status # "FAILED (errors)"
    /\ summary.new_overall_score = ExpectedScore
    /\ \A g \in JsonlFiles :
         EntryOf(summary.jsonl_results, g).total = Cardinality(EvaluatedOf(g))

RECURSIVE FirstNotPassed(_)
\* The first outcome of a sequence that adds an explanation ("fail" or "raise"),
\* "none" when there is none.
FirstNotPassed(outs) ==
  IF outs = << >> THEN "none"
  ELSE IF Head(outs) \in {"fail", "raise"} THEN Head(outs)
  ELSE FirstNotPassed(Tail(outs))

\* C10: a test.run that raises on one repeat is a failing outcome of that repeat
\* with the exception text as its explanation: the repeat counts in the
\* denominator and not in the passes, its text is the explanation when no earlier
\* repeat failed, the error is handed back with the result, the other repeats
\* are all run, and the candidate is scored only with every test's future collected.
C10_RunExceptionIsFailure ==
  \A i \in TestIds :
    (Done(i) /\ Count(futures[i].outs, "raise") > 0) =>
      LET res == futures[i].result
          outs == futures[i].outs
      IN  /\ ~res.is_none
          /\ res.num_repeats = Len(outs)
          /\ res.repeat_passes = Count(outs, "pass")
          /\ res.test_avg < Denom
          /\ res.test_failure
          /\ Count(res.local_errors, "run") = Count(outs, "raise")
          /\ res.explanation =
               (IF FirstNotPassed(outs) = "raise" THEN "exception" ELSE "mismatch")
          /\ phase \in {"EVALUATING", "SCORED"}
          /\ phase = "SCORED" => \A j \in TestIds : futures[j].state = "collected"

\* C10 witness: test.run raised on the first repeat of a test and passed on its
\* second, another test was evaluated too, and the run reached its end.
C10_Witness ==
  /\ main_pc = "done"
  /\ phase = "SCORED"
  /\ \E i, j \in TestIds :
       /\ i # j
       /\ Evaluated(j)
       /\ futures[i].outs = <<"raise", "pass">>
       /\ futures[i].result.repeat_passes = 1
       /\ futures[i].result.explanation = "exception"

\* The number of triples of test i in test_results[test.pdf][test.page].
TriplesOf(i) ==
  LET test == all_tests[i]
  IN  IF test.pdf \in DOMAIN test_results /\ test.page \in DOMAIN test_results[test.pdf]
      THEN Cardinality({k \in 1..Len(test_results[test.pdf][test.page]) :
                          test_results[test.pdf][test.page][k].id = test.id})
      ELSE 0

\* C11 (as claimed): under every interleaving of the worker threads no worker
\* fails because another one re-initialised the entry of its PDF or page, and
\* when evaluate_candidate returns every submitted test has exactly one triple in
\* test_results[test.pdf][test.page].
C11_NoLostResult ==
  /\ \A i \in TestIds : futures[i].state # "raised"
  /\ phase = "SCORED" => \A i \in TestIds : TriplesOf(i) = 1

\* The names of the rows of main's summary list, in order.
RecordedNames == [k \in 1..Len(summary_list) |-> summary_list[k].candidate_name]

\* C12, in every state: the candidates are evaluated one at a time in sorted
\* order (while the pool of a candidate holds tests, the rows recorded are exactly
\* those of the folders sorted before it, each with every submitted test completed
\* and none in flight), and the tests in flight never exceed
\* min(os.cpu_count() or 1, 64).
C12_SequentialState ==
  /\ main_pc \notin {"candidates", "exit"} =>
       /\ \A j, k \in DOMAIN candidate_folders :
            j < k => candidate_folders[j] < candidate_folders[k]
       /\ candidate_idx \in 1..(Len(candidate_folders) + 1)
       /\ RecordedNames =
            [k \in 1..Len(summary_list) |-> candidate_folders[k]]
       /\ Len(summary_list) = candidate_idx - 1
  /\ \A k \in 1..Len(summary_list) :
       /\ summary_list[k].completed = summary_list[k].submitted
       /\ summary_list[k].in_flight = 0
       /\ ~summary_list[k].failed => summary_list[k].completed = NumTests
  /\ executor.state = "open" =>
       /\ executor.max_workers =
            (LET n == IF executor.cpu_count = 0 THEN 1 ELSE executor.cpu_count
             IN  IF n <= 64 THEN n ELSE 64)
       /\ executor.running <= executor.max_workers
       /\ executor.running <= 64

\* C12, in every step: a test starts on a worker only for the candidate the
\* loop is at, with every earlier candidate recorded.
C12_SequentialStep ==
  (executor.state = "open" /\ executor'.state = "open"
     /\ executor'.running > executor.running) =>
    /\ candidate_idx <= Len(candidate_folders)
    /\ Len(summary_list) = candidate_idx - 1

\* C12: candidates one at a time in sorted order, in-flight tests bounded.
C12_Sequential == [](C12_SequentialState) /\ [][C12_SequentialStep]_vars

\* C12 witness: the second candidate's pool is saturated (as many tests running
\* as it has workers, one more waiting) after the first candidate was recorded.
C12_Witness ==
  /\ candidate_folders = <<1, 2>>
  /\ candidate_idx = 2
  /\ Len(summary_list) = 1
  /\ executor.state = "open"
  /\ executor.max_workers = 2
  /\ executor.running = 2
  /\ executor.queued = 1

\* The dataset assertions that are a line of some jsonl file.
LoadableTests ==
  {t \in 1..Len(DatasetTests) : input_folder.line_of[t] # 0}

\* A test is associated with page `page` of `pdf`: a loadable dataset assertion on
\* it, or the baseline assertion main adds on page 1 of a PDF without a loadable
\* baseline assertion.
PageHasAssertion(pdf, page) ==
  \/ \E t \in LoadableTests : DatasetTests[t].pdf = pdf /\ DatasetTests[t].page = page
  \/ /\ page = 1
     /\ ~\E t \in LoadableTests :
           DatasetTests[t].pdf = pdf /\ DatasetTests[t].type = "baseline"

\* Some page of some expected PDF has no assertion.
SomePageUncovered ==
  \E k \in input_folder.pdfs :
    \E page \in PagesOf(pdf_basenames[k]) : ~PageHasAssertion(pdf_basenames[k], page)

\* C13: main goes on to the candidates only if the pdfs folder exists, some
\* assertion was loadable and (unless forced) every page of every expected PDF has
\* an assertion; otherwise it has called sys.exit(1) (as it also does when the
\* pdfs folder holds no PDF), and it never exits with another status or after a
\* candidate was evaluated. Forced, a page without assertion does not stop it.
C13_ExitBeforeCandidates ==
  /\ exit_status \in {0, 1}
  /\ (main_pc = "exit") <=> (exit_status = 1)
  /\ main_pc = "exit" =>
       /\ summary_list = << >> /\ candidate_idx = 0 /\ phase = "DISCOVERING"
       /\ \/ ~input_folder.pdf_folder
          \/ input_folder.pdfs = {}
          \/ LoadableTests = {}
          \/ ~force /\ SomePageUncovered
  /\ main_pc \in {"skip", "candidates"} =>
       /\ input_folder.pdf_folder
       /\ LoadableTests # {}
       /\ ~force => ~SomePageUncovered

\* C13 witness: forced, page 2 of a.pdf has no assertion, and main has gone on to
\* the candidates.
C13_Witness ==
  /\ main_pc = "candidates"
  /\ force
  /\ 1 \in input_folder.pdfs
  /\ ~PageHasAssertion("a.pdf", 2)
  /\ PageHasAssertion("a.pdf", 1)

\* The triple main stored for test i of candidate c, as a set (empty when none).
StoredTriples(c, i) ==
  LET tr == IF c \in DOMAIN test_results_by_candidate
            THEN test_results_by_candidate[c] ELSE << >>
      test == all_tests[i]
  IN  IF test.pdf \in DOMAIN tr /\ test.page \in DOMAIN tr[test.pdf]
      THEN {tr[test.pdf][test.page][k] : k \in
              {j \in 1..Len(tr[test.pdf][test.page]) : tr[test.pdf][test.page][j].id = test.id}}
      ELSE {}

\* Test i was evaluated for candidate c and its majority vote is false.
FailedFor(c, i) ==
  \E t \in StoredTriples(c, i) : t.explanation # "Missing MD files" /\ ~t.passed

\* Test i passed for candidate c.
PassedFor(c, i) == \E t \in StoredTriples(c, i) : t.passed

\* Test i was excluded for candidate c: its page had no document and the run is forced.
ExcludedFor(c, i) ==
  \E t \in StoredTriples(c, i) : t.explanation = "Missing MD files" /\ force

CandidatesOfRun == {candidate_folders[k] : k \in 1..Len(candidate_folders)}

ExportedTests == {all_failed_tests[k] : k \in 1..Len(all_failed_tests)}

\* C14: with --output_failed the exported tests are exactly the tests that were
\* evaluated with final_passed false for every candidate of the run; a test that
\* passed for some candidate is not exported, and a test that was only excluded
\* for missing documents in a forced run is not exported.
C14_ExportedFailedForEveryCandidate ==
  main_pc = "done" =>
    /\ ExportedTests = {i \in TestIds : \A c \in CandidatesOfRun : FailedFor(c, i)}
    /\ \A i \in ExportedTests : \A c \in CandidatesOfRun : ~PassedFor(c, i)
    /\ \A i \in TestIds :
         (\A c \in CandidatesOfRun : ExcludedFor(c, i)) => i \notin ExportedTests

\* The degenerate interval (0.0, 0.0), computed without calling the bootstrap.
ZeroInterval == [call |-> "none", lower |-> Zero, upper |-> Zero]

\* A row of summary whose candidate has no per-assertion score: evaluate_candidate
\* reported errors (a failed discovery among them) or evaluated no assertion.
HasNoScores(row) == row.candidate_errors # << >> \/ row.all_test_scores = << >>

\* C15: a candidate without per-assertion scores (failed discovery, errors, or every
\* assertion excluded) is reported with the interval (0.0, 0.0), and the bootstrap
\* is never called on an empty list of scores, so nothing is raised.
C15_NoScoresGivesZeroInterval ==
  \A k \in 1..Len(summary_list) :
    /\ HasNoScores(summary_list[k]) => summary_list[k].ci = ZeroInterval
    /\ summary_list[k].ci.call = "calculate_bootstrap_ci"
         => summary_list[k].ci.scores # << >>

\* A run of two candidates: one evaluated assertions and then had errors, and has
\* the interval (0.0, 0.0); the other has scores and the bootstrapped interval.
C15_Witness ==
  /\ main_pc = "done"
  /\ \E j, k \in 1..Len(summary_list) :
       /\ summary_list[j].candidate_errors # << >>
       /\ summary_list[j].all_test_scores # << >>
       /\ summary_list[j].ci = ZeroInterval
       /\ summary_list[k].ci.call = "calculate_bootstrap_ci"

\* The sum of the totals of all the groups of jsonl_results.
SumOfTotals(results) == SumSeq([k \in 1..Len(results) |-> results[k].total])

\* C20: every evaluated assertion is counted in exactly one group, the file it was
\* loaded from or "baseline" for an injected baseline assertion: the total of each
\* group is the number of evaluated assertions of that group, and the totals sum to
\* the number of evaluated assertions.
C20_GroupTotalsCoverEvaluated ==
  report.done =>
    /\ \A g \in JsonlFiles :
         EntryOf(report.jsonl_results, g).total = Cardinality(EvaluatedOf(g))
    /\ SumOfTotals(report.jsonl_results) = Cardinality({i \in TestIds : Evaluated(i)})

\* Test i was run on two repeats of which exactly one passed.
HalfPassed(i) ==
  Evaluated(i) /\ futures[i].result.num_repeats = 2 /\ futures[i].result.repeat_passes = 1

\* C19: a group counts a test as passed only when its majority vote final_passed
\* is true, never by its pass ratio: a test with one pass in two repeats has the
\* ratio 1/2 and final_passed false and adds nothing to "passed", and a group made
\* of such tests only has the pass rate 0.
C19_GroupCountsMajorityVote ==
  report.done =>
    /\ \A i \in TestIds :
         HalfPassed(i) => /\ 2 * futures[i].result.test_avg = Denom
                          /\ ~futures[i].result.passed
    /\ \A g \in JsonlFiles :
         LET entry == EntryOf(report.jsonl_results, g)
         IN  /\ entry.passed <= Cardinality(PassedOf(g))
             /\ returned.candidate_errors = << >> =>
                  entry.passed = Cardinality(PassedOf(g))
             /\ (EvaluatedOf(g) # {} /\ \A i \in EvaluatedOf(g) : HalfPassed(i)) =>
                  /\ entry.passed = 0
                  /\ entry.total > 0 => Frac(entry.passed, entry.total) = Zero
                  /\ JsonlFiles = {g} => report.per_category_score = Zero

\* C19 witness: no error, a group that was counted and holds only tests with one
\* pass in two repeats: its total is positive and its "passed" is 0, while the
\* candidate's mean pass ratio is positive.
C19_Witness ==
  /\ report.done
  /\ returned.candidate_errors = << >>
  /\ \E g \in JsonlFiles :
       /\ EvaluatedOf(g) # {}
       /\ \A i \in EvaluatedOf(g) : HalfPassed(i)
       /\ EntryOf(report.jsonl_results, g).total = Cardinality(EvaluatedOf(g))
       /\ EntryOf(report.jsonl_results, g).passed = 0
  /\ returned.overall_score # Zero

\* Every score of the call is v.
AllScoresAre(v) == \A p \in 1..Len(call.scores) : call.scores[p] = v

\* C16: every bootstrap iteration draws from each group as many scores as the
\* group holds and takes the mean of the group means; when every score is the
\* same value v, every iteration's estimate is v and the interval returned is
\* exactly (v, v), whatever n_bootstrap and the indices drawn.
C16_IdenticalScoresCollapse ==
  (call.fn = "calculate_bootstrap_ci" /\ call.scores # << >>) =>
    /\ result.estimates # << >> => result.drawn = call.splits
    /\ \A v \in ScoreValues :
         AllScoresAre(v) =>
           /\ \A k \in 1..Len(result.estimates) : result.estimates[k] = Frac(v, 1)
           /\ result.state = "returned" =>
                result.lower = Frac(v, 1) /\ result.upper = Frac(v, 1)

\* C16 witness: two groups of different sizes, every score 1.0, two iterations,
\* and the interval (1.0, 1.0) returned.
C16_Witness ==
  /\ call.fn = "calculate_bootstrap_ci"
  /\ Len(call.splits) = 2
  /\ call.splits[1] # call.splits[2]
  /\ AllScoresAre(1)
  /\ call.n_bootstrap = 2
  /\ Len(result.estimates) = 2
  /\ result.drawn = call.splits
  /\ result.state = "returned"
  /\ result.lower = Frac(1, 1)
  /\ result.upper = Frac(1, 1)

\* C17: with the same swap assignments, the permutation test of the two vectors
\* exchanged returns the same two-sided p-value; on two identical vectors the
\* observed difference is 0 and the p-value is 1.
C17_PermutationSymmetric ==
  (call.fn = "permutation_test" /\ result.state = "returned") =>
    /\ PValue(call.scores_b, call.scores_a, result.swaps) = result.p_value
    /\ call.scores_a = call.scores_b =>
         result.observed_diff = 0 /\ result.p_value = Frac(1, 1)

\* C17 witness: two vectors of different means, an iteration that reassigned one
\* observation only, and a p-value below 1 returned.
C17_Witness ==
  /\ call.fn = "permutation_test"
  /\ result.state = "returned"
  /\ result.observed_diff # 0
  /\ \E k \in 1..Len(result.swaps) :
       \E p, q \in 1..Len(call.scores_a) : result.swaps[k][p] /\ ~result.swaps[k][q]
  /\ result.p_value # Frac(1, 1)

\* The positions at which `text` occurs in the document.
Occurrences(doc, text) ==
  {p \in 1..Len(doc) : /\ p + Len(text) - 1 <= Len(doc)
                       /\ SubSeq(doc, p, p + Len(text) - 1) = text}

\* The position of the first occurrence of a text that occurs.
FirstOccurrence(doc, text) ==
  CHOOSE p \in Occurrences(doc, text) : \A q \in Occurrences(doc, text) : p <= q

\* `before` and `after` are both found in the document of the call.
BothFound ==
  Occurrences(call.doc, call.before) # {} /\ Occurrences(call.doc, call.after) # {}

\* C18 as stated: the assertion passes iff both texts are found and the first
\* occurrence of `before` is at a smaller position than the first of `after`; it
\* fails when either is missing; and, both being found, the assertion with the two
\* texts swapped has the opposite result.
C18_OrderFlipsAlways ==
  (call.fn = "order" /\ result.state = "returned") =>
    /\ result.passed <=>
         /\ BothFound
         /\ FirstOccurrence(call.doc, call.before) < FirstOccurrence(call.doc, call.after)
    /\ ~BothFound => ~result.passed
    /\ BothFound =>
         OrderTest(call.doc, call.after, call.before).passed = ~result.passed

\* C18, amended: as above, the swapped assertion having the opposite result when
\* the first occurrences of the two texts are at different positions.
C18_OrderFlipsWhenApart ==
  (call.fn = "order" /\ result.state = "returned") =>
    /\ result.passed <=>
         /\ BothFound
         /\ FirstOccurrence(call.doc, call.before) < FirstOccurrence(call.doc, call.after)
    /\ ~BothFound => ~result.passed
    /\ (/\ BothFound
        /\ FirstOccurrence(call.doc, call.before) # FirstOccurrence(call.doc, call.after)) =>
         OrderTest(call.doc, call.after, call.before).passed = ~result.passed

\* C18 witness: `before` occurs before and again after the first `after`; the
\* assertion passed on the first occurrences and the swapped one fails.
C18_Witness ==
  /\ call.fn = "order"
  /\ result.state = "returned"
  /\ result.passed
  /\ \E p \in Occurrences(call.doc, call.before) :
       p > FirstOccurrence(call.doc, call.after)
  /\ ~OrderTest(call.doc, call.after, call.before).passed

\* The search folder holds, for this PDF, only the file named exactly after it.
ExactOnly(pdf) == files[pdf].exact /\ \A p \in Pages : files[pdf].reps[p] = 0

\* The discovery loop has walked this PDF.
Discovered(pdf) == \E k \in 1..(pdf_idx - 1) : pdf_basenames[k] = pdf

\* C23: a PDF with no repeat-pattern file and only the file named exactly after
\* it: discovery records that file and no error for it, and every test of the PDF,
\* whatever its page, is run against exactly that file: one repeat, a pass ratio
\* of 0 or 1, no missing-file error, forced or not.
C23_ExactFileServesEveryPage ==
  \A pdf \in Pdfs :
    ExactOnly(pdf) =>
      /\ Discovered(pdf) =>
           /\ pdf \in DOMAIN pdf_to_md_files
           /\ pdf_to_md_files[pdf] = <<ExactFile>>
      /\ (\A q \in Pdfs : ExactOnly(q)) =>
           \A k \in 1..Len(candidate_errors) :
             candidate_errors[k] \notin {"missing_pdf", "missing_page"}
      /\ \A i \in TestIds :
           (all_tests[i].pdf = pdf /\ Done(i)) =>
             /\ futures[i].page_md_files = <<ExactFile>>
             /\ ~futures[i].result.is_none
             /\ futures[i].result.num_repeats = 1
             /\ futures[i].result.test_avg \in {0, Denom}
             /\ \A k \in 1..Len(futures[i].result.local_errors) :
                  futures[i].result.local_errors[k] # "missing_page"

\* C23 witness: not forced, every PDF has only its exact file, the tests of pages
\* 1 and 2 of a.pdf were both run on a.pdf's file, one passing and one failing,
\* and evaluate_candidate returned without error.
C23_Witness ==
  /\ ~force
  /\ \A pdf \in Pdfs : ExactOnly(pdf)
  /\ returned.done
  /\ returned.candidate_errors = << >>
  /\ \E i, j \in TestIds :
       /\ all_tests[i].pdf = all_tests[j].pdf
       /\ all_tests[i].page # all_tests[j].page
       /\ futures[i].result.test_avg = Denom
       /\ futures[j].result.test_avg = 0

\* The failure messages of one test in a list of messages.
MessagesOf(failures, i) == {k \in 1..Len(failures) : failures[k].id = i}

\* C25: test_failures holds a message of a test exactly when the test's result was
\* collected, the test was evaluated and its pass ratio is below 1; it then holds
\* one message, carrying that ratio. An excluded test and a test passing on every
\* repeat have none, and the returned list is that list.
C25_FailureMessageIffNotAllPassed ==
  /\ \A i \in TestIds :
       LET msgs == MessagesOf(test_failures, i)
       IN  /\ msgs # {} <=>
               /\ futures[i].state = "collected"
               /\ ~futures[i].result.is_none
               /\ futures[i].result.test_avg < Denom
           /\ Cardinality(msgs) <= 1
           /\ \A k \in msgs :
                /\ test_failures[k].test_avg = futures[i].result.test_avg
                /\ test_failures[k].repeat_passes = futures[i].result.repeat_passes
                /\ test_failures[k].num_repeats = futures[i].result.num_repeats
  /\ returned.done => returned.test_failures = test_failures

\* C25 witness: evaluate_candidate returned after one test passed one of its two
\* repeats (a message), one passed every repeat (none) and one was excluded for
\* want of a file (none).
C25_Witness ==
  /\ returned.done
  /\ Len(returned.test_failures) = 1
  /\ \E i, j, k \in TestIds :
       /\ futures[i].result.num_repeats = 2
       /\ futures[i].result.repeat_passes = 1
       /\ MessagesOf(returned.test_failures, i) # {}
       /\ ~futures[j].result.is_none
       /\ futures[j].result.test_avg = Denom
       /\ futures[k].result.is_none

\* The number of scores held by all the lists of a per-type breakdown.
BreakdownSize(tb) ==
  Cardinality(UNION {{<<t, k>> : k \in 1..Len(tb[t])} : t \in DOMAIN tb})

\* The tests that process_test excluded for want of a file.
ExcludedTests == {i \in TestIds : Done(i) /\ futures[i].result.is_none}

\* C28: on every return path of evaluate_candidate the returned total is the
\* number of tests that were evaluated, the length of all_test_scores and the
\* number of scores in the per-type breakdown, and evaluated plus excluded tests
\* are all the tests.
C28_TotalIsEvaluatedCount ==
  returned.done =>
    /\ returned.total_tests = Cardinality({i \in TestIds : Evaluated(i)})
    /\ returned.total_tests = Len(returned.all_test_scores)
    /\ returned.total_tests = BreakdownSize(returned.test_type_breakdown)
    /\ Cardinality({i \in TestIds : Evaluated(i)}) + Cardinality(ExcludedTests)
         = NumTests

\* The groups of jsonl_results that have a score, in insertion order.
HasScores(entry) == entry.scores # << >>

ScoredGroups(results) == SelectSeq(results, HasScores)

\* The i-th slice of a flat score list cut by the sizes of splits.
Slice(scores, splits, i) ==
  LET before == SumSeq(SubSeq(splits, 1, i - 1))
  IN  SubSeq(scores, before + 1, before + splits[i])

\* C27: whenever main calls calculate_bootstrap_ci for a candidate, the sizes of
\* splits sum to the length of the flat score list, every size is at least 1,
\* every score is 0 or 1, and the i-th slice is the score list of the i-th group
\* that has a score: one score per evaluated test of that group, a 1 for each one
\* that passed.
C27_BootstrapInputConsistent ==
  (report.done /\ report.jsonl_scores # << >>) =>
    LET scores == report.jsonl_scores
        splits == report.jsonl_file_sizes
        groups == ScoredGroups(report.jsonl_results)
        row == summary_list[Len(summary_list)]
    IN  /\ row.ci = [call |-> "calculate_bootstrap_ci", scores |-> scores,
                     splits |-> splits]
        /\ SumSeq(splits) = Len(scores)
        /\ \A k \in 1..Len(splits) : splits[k] >= 1
        /\ \A k \in 1..Len(scores) : scores[k] \in {0, 1}
        /\ Len(splits) = Len(groups)
        /\ \A i \in 1..Len(groups) :
             /\ Slice(scores, splits, i) = groups[i].scores
             /\ splits[i] = Cardinality(EvaluatedOf(groups[i].file))
             /\ Count(groups[i].scores, 1) = Cardinality(PassedOf(groups[i].file))
             /\ \A j \in 1..Len(groups) : groups[j].file = groups[i].file => j = i

\* C27 witness: a candidate was reported with two groups, the first of one failed
\* test and the second of a passed and a failed one: the call is made with the
\* scores <<0, 1, 0>> and the splits <<1, 2>>.
C27_Witness ==
  /\ report.done
  /\ Len(report.jsonl_results) = 2
  /\ report.jsonl_scores = <<0, 1, 0>>
  /\ report.jsonl_file_sizes = <<1, 2>>
  /\ summary_list[Len(summary_list)].ci.call = "calculate_bootstrap_ci"

\* The expected PDFs: those found in the pdfs folder.
ExpectedPdfs == {pdf_basenames[k] : k \in input_folder.pdfs}

\* A baseline assertion of `pdf` is a line of some jsonl file.
LoadsBaseline(pdf) ==
  \E t \in LoadableTests :
    DatasetTests[t].pdf = pdf /\ DatasetTests[t].type = "baseline"

\* The positions of all_tests that hold the assertion main adds for `pdf`.
AddedFor(pdf) ==
  {k \in 1..Len(loaded_tests) : loaded_tests[k].id = pdf \o "_baseline"}

\* C24: once main has added the baseline assertions and until it removes them,
\* every expected PDF has a baseline assertion: a PDF without a loaded one has
\* exactly one added assertion, with id {pdf}_baseline, page 1, type baseline and
\* group "baseline", after the loaded ones, and a PDF with a loaded one has none
\* added. The page check is made on that list: when it stops main, the added
\* assertions are still there. After the removal of --skip_baseline no baseline
\* assertion, loaded or added, is left to be evaluated, and without the flag
\* every expected PDF still has one.
C24_OneBaselinePerPdf ==
  /\ (main_pc \in {"pages", "skip"} \/ (main_pc = "exit" /\ loaded_tests # << >>)
        \/ (main_pc = "candidates" /\ ~skip_baseline)) =>
       \A pdf \in ExpectedPdfs :
         /\ \E k \in 1..Len(loaded_tests) :
              loaded_tests[k].pdf = pdf /\ loaded_tests[k].type = "baseline"
         /\ Cardinality(AddedFor(pdf)) = IF LoadsBaseline(pdf) THEN 0 ELSE 1
         /\ \A k \in AddedFor(pdf) :
              /\ loaded_tests[k] =
                   [id |-> pdf \o "_baseline", pdf |-> pdf, page |-> 1,
                    type |-> "baseline"]
              /\ test_to_jsonl[loaded_tests[k].id] = "baseline"
              /\ k > Cardinality(LoadableTests)
  /\ main_pc \in {"pages", "skip", "candidates"} =>
       \A t \in LoadableTests :
         /\ (~skip_baseline \/ main_pc # "candidates"
               \/ DatasetTests[t].type # "baseline") =>
              \E k \in 1..Len(loaded_tests) : loaded_tests[k] = DatasetTests[t]
         /\ test_to_jsonl[DatasetTests[t].id] \in
              {JsonlNames[k] : k \in 1..Len(JsonlNames)}
  /\ (main_pc = "candidates" /\ skip_baseline) =>
       \A k \in 1..Len(loaded_tests) : loaded_tests[k].type # "baseline"

\* C24 witness: not forced, with --skip_baseline: b.pdf has no loaded assertion at
\* all and a.pdf has a loaded baseline assertion on page 2; main passed the page
\* check thanks to the assertion added for b.pdf and then removed both.
C24_Witness ==
  /\ main_pc = "candidates"
  /\ ~force
  /\ skip_baseline
  /\ ExpectedPdfs = Pdfs
  /\ LoadsBaseline("a.pdf")
  /\ ~\E t \in LoadableTests : DatasetTests[t].pdf = "b.pdf"
  /\ "b.pdf_baseline" \in DOMAIN test_to_jsonl
  /\ "a.pdf_baseline" \notin DOMAIN test_to_jsonl
  /\ loaded_tests # << >>

RECURSIVE SequentialTestResults(_, _)
\* test_results as the worker threads leave it when they run process_test one
\* after the other in submission order, from test k on, each with the result its
\* own run had.
SequentialTestResults(k, tr) ==
  IF k > NumTests THEN tr
  ELSE SequentialTestResults(k + 1,
         AppendResult(tr, all_tests[k].pdf, all_tests[k].page,
           [id |-> all_tests[k].id, passed |-> futures[k].result.passed,
            explanation |-> futures[k].result.explanation]))

\* jsonl_results as main computes it from a given test_results.
GroupedFrom(tr) == JsonlResults(1, << >>, tr, returned.candidate_errors)

\* C26 (as claimed): whatever the interleaving of the worker threads,
\* evaluate_candidate returns, and what it returns gives main the same per-type
\* counts, the same per-group totals, the same primary score and the same scores
\* and splits for the bootstrap as the run of the tests one after the other, each
\* repeat file giving the same outcome.
C26_OutcomeIndependentOfInterleaving ==
  /\ phase # "ABORTED"
  /\ returned.done =>
       LET got == GroupedFrom(returned.test_results)
           seq == GroupedFrom(SequentialTestResults(1, << >>))
       IN  /\ \A t \in TypesSeen :
                Cardinality(EvaluatedOfType(t)) =
                  IF t \in DOMAIN returned.test_type_breakdown
                  THEN Len(returned.test_type_breakdown[t]) ELSE 0
           /\ got = seq
           /\ PerCategoryScore(got) = PerCategoryScore(seq)
           /\ JsonlScores(got) = JsonlScores(seq)
           /\ JsonlFileSizes(got) = JsonlFileSizes(seq)

\* The backup files of dataset file f in a directory: f's base name, an
\* underscore, eight digits, an underscore, six digits and ".jsonl".
BackupsOf(dir, f) ==
  {b \in DOMAIN dir :
     /\ Len(b) = Len(f) + 16
     /\ SubSeq(b, 1, Len(f) - 6) = SubSeq(f, 1, Len(f) - 6)
     /\ b[Len(f) - 5] = "_"
     /\ \A k \in (Len(f) - 4)..(Len(f) + 3) : IsDigit(b[k])
     /\ b[Len(f) + 4] = "_"
     /\ \A k \in (Len(f) + 5)..(Len(f) + 10) : IsDigit(b[k])
     /\ SubSeq(b, Len(f) + 11, Len(f) + 16) = JsonlExt}

\* C21: no step of update_gt changes the directory in a dry run; a step that
\* changes a dataset file is taken only with --no-dry-run and while a backup of
\* the file, named NAME_YYYYMMDD_HHMMSS.jsonl, holds the content the file has
\* before the step; so when the backup step fails, the file is not overwritten.
C21_NoChangeWithoutBackup ==
  [][ LET dir == result.directory
          after == result'.directory
      IN  /\ after # dir => (call.fn = "update_gt" /\ call.no_dry_run)
          /\ \A f \in DOMAIN DatasetDirectory :
               after[f] # dir[f] =>
                 \E b \in BackupsOf(dir, f) : dir[b] = dir[f]
          /\ (result.state = "updated" /\ result'.state = "idle"
                /\ call.no_dry_run) =>
               \A f \in DOMAIN DatasetDirectory : after[f] = dir[f] ]_vars

\* C21 witness: a run with --no-dry-run has ended with status 0: g1.jsonl holds
\* other lines than at first and a backup of it holds its first content.
C21_Witness ==
  /\ result.state = "idle"
  /\ result.exit = 0
  /\ call.fn = "update_gt"
  /\ call.no_dry_run
  /\ result.directory[call.gt_file] # DatasetDirectory[call.gt_file]
  /\ \E b \in BackupsOf(result.directory, call.gt_file) :
       result.directory[b] = DatasetDirectory[call.gt_file]

\* C29: whatever runs of update_gt came before, the jsonl files a benchmark run
\* lists in the directory are the dataset files, never one of the backups.
C29_BackupsNeverLoaded ==
  /\ result.jsonl_files \in {{}, DOMAIN DatasetDirectory}
  /\ \A f \in result.jsonl_files : \A g \in DOMAIN DatasetDirectory :
       f \notin BackupsOf(result.directory, g)

\* C29 witness: the directory holds two backups of g1.jsonl written by two saves,
\* and the scan of a benchmark run lists g1.jsonl and g2.jsonl only.
C29_Witness ==
  /\ result.state = "idle"
  /\ Cardinality(BackupsOf(result.directory, <<"g", "1">> \o JsonlExt)) = 2
  /\ Cardinality(DOMAIN result.directory) = 4
  /\ result.jsonl_files = DOMAIN DatasetDirectory

\* C22: parse_multiple_files_parallel returns only when every task has ended, one
\* result per input file and in the order of the input files; the result of a
\* task that failed is the failure record of its own file, with the error, and a
\* task that did not fail has written its file and returned success.
C22_OneResultPerFileInOrder ==
  result.state = "returned" =>
    /\ Len(result.results) = Len(result.file_paths)
    /\ \A i \in 1..Len(result.file_paths) :
         /\ result.tasks[i].state = "ended"
         /\ result.results[i].file_path = result.file_paths[i]
         /\ result.results[i].success =>
              result.results[i].output_path \in DOMAIN result.written
         /\ ~result.results[i].success =>
              result.results[i].error \in {"aparse", "aget_markdown_nodes", "open"}

\* C22 witness: a run of three files has returned: the first failed in aparse,
\* the second when saving, and the third was parsed and saved.
C22_Witness ==
  /\ result.state = "returned"
  /\ Len(result.results) = 3
  /\ result.results[1].error = "aparse"
  /\ result.results[2].error = "open"
  /\ result.results[3].success
  /\ result.written[result.results[3].output_path] = 3

\* C30 (as claimed): in one run, two different input files never have the same
\* output path, and the file at the output path of a task that succeeded is the
\* one that task wrote.
C30_DistinctOutputPaths ==
  result.state = "returned" =>
    \A i, j \in 1..Len(result.results) :
      (result.results[i].success /\ result.results[j].success /\ i # j) =>
        /\ result.results[i].output_path # result.results[j].output_path
        /\ result.written[result.results[i].output_path] = i

====
